---- MODULE Spec2Model ----
(***************************************************************************)
(* Model of kevvy's CVE lookup cog (src/kevvy/cogs/cve_lookup.py): the     *)
(* on_message alert pipeline, the /cve lookup command and the policy       *)
(* commands, over the guild/channel policy store and the bot's statistics  *)
(* counters.                                                               *)
(*                                                                         *)
(* Conventions.  An optional value (Python None or a value) is a sequence  *)
(* of length at most one: None is <<>>, a present value x is <<x>>.  A     *)
(* text is a sequence of one-character strings.  CVSS scores are counted   *)
(* in tenths (8.5 is 85).  A coroutine is a process whose pc names the     *)
(* await it is suspended at; one action runs it from that await to the     *)
(* next one, as the asyncio event loop does.                               *)
(***************************************************************************)
EXTENDS Integers, Sequences, FiniteSets, TLC

(***************************************************************************)
(* Bounds of the model.                                                    *)
(***************************************************************************)
\* concurrent on_message invocations
MaxHandlers == 2
\* exceptions the collaborators (NVD, KEV, Discord, the store) raise in one
\* behaviour
MaxFaults == 2

None == <<>>
Some(x) == <<x>>

Min(a, b) == IF a < b THEN a ELSE b

(***************************************************************************)
(* Texts and the two CVE regular expressions.                              *)
(***************************************************************************)
Digits == {"0", "1", "2", "3", "4", "5", "6", "7", "8", "9"}

\* str.upper() on the characters the model's texts use
UpperChar(c) ==
    CASE c = "c" -> "C"
      [] c = "v" -> "V"
      [] c = "e" -> "E"
      [] c = "h" -> "H"
      [] c = "i" -> "I"
      [] OTHER -> c

Upper(s) == [i \in 1..Len(s) |-> UpperChar(s[i])]

RECURSIVE DigitRun(_, _)
\* the number of consecutive digits of s from position i on (\d* , greedy)
DigitRun(s, i) ==
    IF i <= Len(s) /\ s[i] \in Digits THEN 1 + DigitRun(s, i + 1) ELSE 0

\* the pattern compiled without re.IGNORECASE
CveMatchEnd_CaseSensitive(s, i) ==
    IF /\ i + 12 <= Len(s)
       /\ s[i] = "C" /\ s[i + 1] = "V" /\ s[i + 2] = "E"
       /\ s[i + 3] = "-"
       /\ DigitRun(s, i + 4) = 4
       /\ s[i + 8] = "-"
       /\ DigitRun(s, i + 9) >= 4
    THEN i + 8 + DigitRun(s, i + 9)
    ELSE 0

\* CVE-\d{4}-\d{4,} with re.IGNORECASE, tried at position i: the position of
\* the last character matched, or 0 when there is no match at i.
CveMatchEnd(s, i) ==
    IF /\ i + 12 <= Len(s)
       /\ UpperChar(s[i]) = "C" /\ UpperChar(s[i + 1]) = "V" /\ UpperChar(s[i + 2]) = "E"
       /\ s[i + 3] = "-"
       /\ DigitRun(s, i + 4) = 4
       /\ s[i + 8] = "-"
       /\ DigitRun(s, i + 9) >= 4
    THEN i + 8 + DigitRun(s, i + 9)
    ELSE 0

RECURSIVE FindAllFrom(_, _)
FindAllFrom(s, i) ==
    IF i > Len(s) THEN <<>>
    ELSE LET e == CveMatchEnd(s, i)
         IN IF e > 0 THEN <<SubSeq(s, i, e)>> \o FindAllFrom(s, e + 1)
            ELSE FindAllFrom(s, i + 1)

\* CVE_SCAN_REGEX.findall(text): the non-overlapping matches, left to right
CVE_SCAN_REGEX(s) == FindAllFrom(s, 1)

\* CVE_VALIDATE_REGEX.match(text): ^...$ , where $ also matches just before a
\* trailing newline
CVE_VALIDATE_REGEX(s) ==
    LET e == CveMatchEnd(s, 1)
    IN /\ e > 0
       /\ \/ e = Len(s)
          \/ e = Len(s) - 1 /\ s[Len(s)] = "\n"

MAX_CVES_PER_MESSAGE == 5

Range(f) == {f[i] : i \in DOMAIN f}

\* {match.upper() for match in CVE_SCAN_REGEX.findall(content)}
FoundCvesSet(content) == {Upper(m) : m \in Range(CVE_SCAN_REGEX(content))}

\* list(found) for a set: its members in the order the set iterates, which
\* the string hashes of the process fix and the program does not determine;
\* `order` lists every identifier in that order.
ListOfSet(found, order) == SelectSeq(order, LAMBDA c : c \in found)

\* list(found_cves_set) without the slice: every identifier found
CvesToProcess_Uncapped(found, order) == ListOfSet(found, order)

\* the slice taken one too long
CvesToProcess_OffByOne(found, order) ==
    SubSeq(ListOfSet(found, order), 1, Min(Cardinality(found), MAX_CVES_PER_MESSAGE + 1))

\* list(found_cves_set)[:MAX_CVES_PER_MESSAGE]
CvesToProcess(found, order) ==
    SubSeq(ListOfSet(found, order), 1, Min(Cardinality(found), MAX_CVES_PER_MESSAGE))

(***************************************************************************)
(* Texts: the identifiers and the message contents the model uses.         *)
(***************************************************************************)
CveText(prefix, year, number) == prefix \o <<"-">> \o year \o <<"-">> \o number

CveNo(d) == CveText(<<"C", "V", "E">>, <<"2", "0", "2", "4">>, <<"0", "0", "0", d>>)

Cve1 == CveNo("1")
Cve2 == CveNo("2")
Cve1Lower == CveText(<<"c", "v", "e">>, <<"2", "0", "2", "4">>, <<"0", "0", "0", "1">>)
\* a three-digit year: no identifier
NotACve == CveText(<<"C", "V", "E">>, <<"2", "0", "2">>, <<"0", "0", "0", "1">>)

\* every identifier a message of the model mentions
AllCves == {CveNo(d) : d \in {"1", "2", "3", "4", "5", "6", "7"}}

OneCveText == Cve1
RepeatedCveText == Cve1Lower \o <<" ">> \o Cve1
TwoCvesText == <<"h", "i", " ">> \o Cve1 \o <<" ">> \o Cve2

SecondCveText == Cve2

Contents ==
    { <<>>, <<"h", "i">>, NotACve, OneCveText, SecondCveText, RepeatedCveText, TwoCvesText }

\* message.author.bot, message.guild (set or None), message.channel.id,
\* message.content
Message(author_bot, guild, channel, content) ==
    [author_bot |-> author_bot, guild |-> guild, channel |-> channel, content |-> content]

Channels == {"c1", "c2"}

Messages ==
    {Message(FALSE, TRUE, ch, t) : ch \in Channels, t \in Contents}
        \cup {Message(TRUE, TRUE, "c1", TwoCvesText), Message(FALSE, FALSE, "c1", TwoCvesText),
              Message(TRUE, TRUE, "c1", <<>>)}

(***************************************************************************)
(* The policy store (KEVConfigDB) and the upstream catalogues.             *)
(***************************************************************************)
SeverityLevels == {"critical", "high", "medium", "low", "all"}

GuildConfig(enabled, verbose_mode, severity_threshold) ==
    [cve_monitoring_enabled |-> enabled, verbose_mode |-> verbose_mode,
     cve_severity_threshold |-> severity_threshold]

\* A ChannelPolicy row: enabled flag and tri-state verbosity override
ChannelRow(enabled, verbose_mode) == [enabled |-> enabled, verbose_mode |-> verbose_mode]

ChannelRows == {ChannelRow(e, v) : e \in BOOLEAN, v \in {None, Some(TRUE), Some(FALSE)}}

NoRows == [c \in Channels |-> None]

\* CVSS scores an NVD record may carry, in tenths, around every threshold
Scores == {0, 1, 39, 40, 69, 70, 85, 89, 90, 100}

\* cve_details as get_cve_details returns it: the "cvss" entry is a number
\* or is missing
CveDetails == {[cvss |-> Some(s)] : s \in Scores} \cup {[cvss |-> None]}

VARIABLES
    cve_guild_config,      \* the guild's GuildPolicy row: None or Some(row)
    cve_channel_configs,   \* channel -> None or Some(ChannelPolicy row)
    db,                    \* self.db is set
    nvd_client,            \* self.nvd_client is set
    cisa_kev_client,       \* self.bot.cisa_kev_client is set
    nvd_records,           \* NVD: identifier -> None or Some(record)
    kev_catalog,           \* the identifiers in the CISA KEV catalogue
    hash_order,            \* the order in which a set of identifiers iterates
    faults_left,           \* exceptions the collaborators may still raise
    messages_left,         \* message events not delivered yet
    stats_cve_lookups,     \* bot.stats_cve_lookups
    stats_nvd_fallback_success,
    stats_api_errors_nvd,
    stats_lock,            \* bot.stats_lock is held
    handlers,              \* the on_message invocations: handler -> its frame
    trace,                 \* handler -> the calls and sends it has made, in order
    lookup_cmd,            \* the /cve lookup invocation: its frame and its trace
    policy_cmd,            \* the policy commands run so far and the last one's outcome
    latest_cmd             \* the /cve latest invocation: its frame

storeVars == <<cve_guild_config, cve_channel_configs>>
envVars == <<db, nvd_client, cisa_kev_client, nvd_records, kev_catalog, hash_order>>
statsVars == <<stats_cve_lookups, stats_nvd_fallback_success, stats_api_errors_nvd>>
slashVars == <<policy_cmd, latest_cmd>>
cmdVars == <<lookup_cmd, slashVars>>

vars ==
    <<storeVars, envVars, cmdVars, faults_left, messages_left, statsVars,
      stats_lock, handlers, trace>>

Handlers == 1..MaxHandlers

\* db.get_cve_guild_config(guild_id)
get_cve_guild_config == cve_guild_config

\* db.get_all_cve_channel_configs_for_guild(guild_id): the guild's rows
get_all_cve_channel_configs_for_guild ==
    {[channel_id |-> c, enabled |-> cve_channel_configs[c][1].enabled,
      verbose_mode |-> cve_channel_configs[c][1].verbose_mode] :
        c \in {x \in Channels : cve_channel_configs[x] # None}}

\* db.get_effective_verbosity(guild_id, channel_id): the channel's override
\* when a row with a non-null override exists, else the guild default
get_effective_verbosity(channel_id) ==
    IF /\ cve_channel_configs[channel_id] # None
       /\ cve_channel_configs[channel_id][1].verbose_mode # None
    THEN cve_channel_configs[channel_id][1].verbose_mode[1]
    ELSE IF cve_guild_config # None THEN cve_guild_config[1].verbose_mode
         ELSE FALSE

\* db.get_cve_channel_config(guild_id, channel_id): the row or None
get_cve_channel_config(channel_id) == cve_channel_configs[channel_id]

\* verbose_channel_status_command for one channel: what the status says of
\* the channel, "inherit" with the global setting or "override" with its own
VerboseChannelStatus(channel_id) ==
    LET guild_config == get_cve_guild_config
        global_verbose == IF guild_config # None THEN guild_config[1].verbose_mode
                          ELSE FALSE
        channel_config == get_cve_channel_config(channel_id)
        override == IF channel_config # None THEN channel_config[1].verbose_mode
                    ELSE None
    IN IF override = None THEN [status |-> "inherit", verbose |-> global_verbose]
       ELSE [status |-> "override", verbose |-> override[1]]

\* whether a collaborator's call may raise now, and the budget after it
MayRaise == IF faults_left > 0 THEN BOOLEAN ELSE {FALSE}
Spend(raises) == faults_left' = IF raises THEN faults_left - 1 ELSE faults_left

Event(op, cve_id) == [op |-> op, cve |-> cve_id]

\* the increment by two
Increment_Twice(n) == n + 2

\* `self.bot.stats_... += 1`
Increment(n) == n + 1

\* a lock that never makes a caller wait
LockIsFree_Always == TRUE

\* asyncio.Lock.acquire returns once the lock is not held
LockIsFree == ~stats_lock

(***************************************************************************)
(* on_message: the frame of one invocation and the conditions it tests.    *)
(***************************************************************************)
NoMessage == Message(FALSE, FALSE, "c1", <<>>)

\* The locals of an invocation that has not received its message yet.  A
\* local keeps its value from one loop iteration to the next until the code
\* assigns it again.
IdleHandler ==
    [pc |-> "idle", outcome |-> "pending", message |-> NoMessage,
     guild_config |-> None, channel_configs |-> {},
     found_cves_set |-> {}, cves_to_process |-> <<>>, idx |-> 0,
     global_threshold_str |-> "all",
     cve_details |-> None, is_kev |-> FALSE, verbose |-> FALSE,
     processed_count |-> 0]

\* the test without the enabled flag: only a missing row disables
GuildDisabled_MissingOnly(guild_config) == guild_config = None

\* `not guild_config or not guild_config.get("cve_monitoring_enabled", False)`
GuildDisabled(guild_config) ==
    guild_config = None \/ ~guild_config[1].cve_monitoring_enabled

\* the loop without the test of "enabled": any row of the channel counts
IsChannelConfigured_AnyRow(channel_configs, channel_id) ==
    \E conf \in channel_configs : conf.channel_id = channel_id

\* the loop over channel_configs: the current channel has a row that is enabled
IsChannelConfiguredAndEnabled(channel_configs, channel_id) ==
    \E conf \in channel_configs : conf.channel_id = channel_id /\ conf.enabled

\* a deny-list: only a channel whose own row is disabled is rejected
ChannelRejected_DenyList(channel_configs, channel_id) ==
    \E conf \in channel_configs : conf.channel_id = channel_id /\ ~conf.enabled

\* `if channel_configs: ... if not is_channel_configured_and_enabled: return`
ChannelRejected(channel_configs, channel_id) ==
    channel_configs # {} /\ ~IsChannelConfiguredAndEnabled(channel_configs, channel_id)

\* the checks without `if message.author.bot: return`
InitialChecks_BotsToo(message) ==
    IF ~message.guild THEN "dm"
    ELSE IF ~db \/ ~nvd_client THEN "nodeps"
    ELSE IF message.content = <<>> THEN "empty"
    ELSE "ok"

\* the checks made before the store is read: the reason to return, or "ok"
InitialChecks(message) ==
    IF message.author_bot THEN "bot"
    ELSE IF ~message.guild THEN "dm"
    ELSE IF ~db \/ ~nvd_client THEN "nodeps"
    ELSE IF message.content = <<>> THEN "empty"
    ELSE "ok"

\* the threshold table, in tenths; .get(label, 0.0)
MinScoreThreshold(label) ==
    CASE label = "critical" -> 90
      [] label = "high" -> 70
      [] label = "medium" -> 40
      [] label = "low" -> 1
      [] label = "all" -> 0
      [] OTHER -> 0

\* the comparison with `<=` for `<`: a score equal to the threshold is skipped
SeverityCheckSkips_AtThreshold(cve_details, global_threshold_str) ==
    IF cve_details.cvss # None
    THEN cve_details.cvss[1] <= MinScoreThreshold(global_threshold_str)
    ELSE global_threshold_str # "all"

\* The severity threshold check: TRUE when the record is skipped.
SeverityCheckSkips(cve_details, global_threshold_str) ==
    IF cve_details.cvss # None
    THEN cve_details.cvss[1] < MinScoreThreshold(global_threshold_str)
    ELSE global_threshold_str # "all"

\* the notice also sent when exactly MAX_CVES_PER_MESSAGE identifiers were found
AfterLoop_AtCap(f) ==
    IF Cardinality(f.found_cves_set) >= MAX_CVES_PER_MESSAGE
    THEN [f EXCEPT !.pc = "await_notice"]
    ELSE [f EXCEPT !.pc = "done", !.outcome = "summarized"]

\* After the loop: the truncation notice is sent when more identifiers were
\* found than processed, else the invocation ends.
AfterLoop(f) ==
    IF Cardinality(f.found_cves_set) > MAX_CVES_PER_MESSAGE
    THEN [f EXCEPT !.pc = "await_notice"]
    ELSE [f EXCEPT !.pc = "done", !.outcome = "summarized"]

RECURSIVE LoopFrom(_, _)
\* The head of `for cve_id in cves_to_process` at position i: an identifier
\* that fails CVE_VALIDATE_REGEX is skipped, the next one is processed, up to
\* the first await (the stats lock).
LoopFrom(f, i) ==
    IF i > Len(f.cves_to_process) THEN AfterLoop([f EXCEPT !.idx = i])
    ELSE IF ~CVE_VALIDATE_REGEX(f.cves_to_process[i]) THEN LoopFrom(f, i + 1)
    ELSE [f EXCEPT !.idx = i, !.pc = "lock_lookups"]

\* a loop that tests the guild's monitoring flag again before each identifier
NextIdentifier_ChecksPolicy(f) ==
    IF cve_guild_config = None \/ ~cve_guild_config[1].cve_monitoring_enabled
    THEN [f EXCEPT !.pc = "done", !.outcome = "disabled"]
    ELSE LoopFrom(f, f.idx + 1)

\* `continue`, or the end of the loop body
NextIdentifier(f) == LoopFrom(f, f.idx + 1)

CurrentCve(f) == f.cves_to_process[f.idx]

\* on_message up to its first await, the store having answered: the frame
\* the invocation is left in
OnMessageFrame(f, message) ==
    LET guild_config == get_cve_guild_config
        channel_configs == get_all_cve_channel_configs_for_guild
        found_cves_set == FoundCvesSet(message.content)
        cves_to_process == CvesToProcess(found_cves_set, hash_order)
    IN IF GuildDisabled(guild_config)
       THEN [f EXCEPT !.pc = "done", !.outcome = "disabled",
                      !.guild_config = guild_config]
       ELSE IF ChannelRejected(channel_configs, message.channel)
       THEN [f EXCEPT !.pc = "done", !.outcome = "allowlist",
                      !.guild_config = guild_config,
                      !.channel_configs = channel_configs]
       ELSE IF cves_to_process = <<>>
       THEN [f EXCEPT !.pc = "done", !.outcome = "nocves",
                      !.guild_config = guild_config,
                      !.channel_configs = channel_configs,
                      !.found_cves_set = found_cves_set]
       ELSE LoopFrom([f EXCEPT !.guild_config = guild_config,
                               !.channel_configs = channel_configs,
                               !.found_cves_set = found_cves_set,
                               !.cves_to_process = cves_to_process,
                               !.global_threshold_str =
                                   guild_config[1].cve_severity_threshold],
                     1)

\* the handler that creates the guild's default row where it reads none, as
\* the policy commands do
OnMessage_EnsuresConfig(h, message) ==
    /\ handlers[h].pc = "idle"
    /\ messages_left > 0
    /\ \A g \in Handlers : g < h => handlers[g].pc # "idle"
    /\ messages_left' = messages_left - 1
    /\ LET f == [handlers[h] EXCEPT !.message = message]
           reason == InitialChecks(message)
       IN \E raises \in MayRaise :
            /\ Spend(raises /\ reason = "ok")
            /\ handlers' = [handlers EXCEPT ![h] =
                   IF reason # "ok" THEN [f EXCEPT !.pc = "done", !.outcome = reason]
                   ELSE IF raises THEN [f EXCEPT !.pc = "done", !.outcome = "raised"]
                   ELSE OnMessageFrame(f, message)]
            /\ cve_guild_config' =
                   IF reason = "ok" /\ ~raises /\ cve_guild_config = None
                   THEN Some(GuildConfig(TRUE, FALSE, "all"))
                   ELSE cve_guild_config
    /\ UNCHANGED <<cve_channel_configs, envVars, cmdVars, statsVars, stats_lock, trace>>

(***************************************************************************)
(* on_message, from the message event to the first await.                  *)
(***************************************************************************)
OnMessage(h, message) ==
    /\ handlers[h].pc = "idle"
    /\ messages_left > 0
    \* invocations take the frames in order
    /\ \A g \in Handlers : g < h => handlers[g].pc # "idle"
    /\ messages_left' = messages_left - 1
    /\ LET f == [handlers[h] EXCEPT !.message = message]
           reason == InitialChecks(message)
       IN \E raises \in MayRaise :
            /\ Spend(raises /\ reason = "ok")
            /\ handlers' = [handlers EXCEPT ![h] =
                   IF reason # "ok" THEN [f EXCEPT !.pc = "done", !.outcome = reason]
                   \* a read of the store raises: nothing catches it
                   ELSE IF raises THEN [f EXCEPT !.pc = "done", !.outcome = "raised"]
                   ELSE OnMessageFrame(f, message)]
    /\ UNCHANGED <<storeVars, envVars, cmdVars, statsVars, stats_lock, trace>>

(***************************************************************************)
(* on_message, the loop body, one action per await.                        *)
(***************************************************************************)
Log(h, events) == trace' = [trace EXCEPT ![h] = @ \o events]

\* `async with self.bot.stats_lock`: waits until the lock is free, takes it
AcquireStatsLock(h) ==
    /\ handlers[h].pc \in {"lock_lookups", "lock_success", "lock_errors"}
    /\ LockIsFree
    /\ stats_lock' = TRUE
    /\ handlers' = [handlers EXCEPT ![h].pc =
           CASE @ = "lock_lookups" -> "inc_lookups"
             [] @ = "lock_success" -> "inc_success"
             [] @ = "lock_errors" -> "inc_errors"]
    /\ UNCHANGED <<storeVars, envVars, cmdVars, faults_left, messages_left, statsVars, trace>>

\* the fetch made under the lock without counting the lookup
CountLookup_NotCounted(h) ==
    /\ handlers[h].pc = "inc_lookups"
    /\ stats_lock' = FALSE
    /\ handlers' = [handlers EXCEPT ![h].pc = "await_nvd"]
    /\ Log(h, <<Event("inc_lookups", CurrentCve(handlers[h])),
                Event("fetch", CurrentCve(handlers[h]))>>)
    /\ UNCHANGED <<storeVars, envVars, cmdVars, faults_left, messages_left, statsVars>>

\* stats_cve_lookups += 1 under the lock, then get_cve_details is called
CountLookup(h) ==
    /\ handlers[h].pc = "inc_lookups"
    /\ stats_cve_lookups' = Increment(stats_cve_lookups)
    /\ stats_lock' = FALSE
    /\ handlers' = [handlers EXCEPT ![h].pc = "await_nvd"]
    /\ Log(h, <<Event("inc_lookups", CurrentCve(handlers[h])),
                Event("fetch", CurrentCve(handlers[h]))>>)
    /\ UNCHANGED <<storeVars, envVars, cmdVars, faults_left, messages_left,
                   stats_nvd_fallback_success, stats_api_errors_nvd>>

\* an except that swallows the exception: the loop goes on, nothing counted
OnException_Uncounted(f) == NextIdentifier(f)

\* An exception raised inside the loop body's try: the outer
\* `except Exception` takes it, and counts it under the stats lock
OnException(f) == [f EXCEPT !.pc = "lock_errors"]

\* a missing record handled as a failure of the fetch
AfterFetch_NotFoundIsError(f, answer) ==
    IF answer # None THEN [f EXCEPT !.cve_details = answer, !.pc = "lock_success"]
    ELSE OnException([f EXCEPT !.cve_details = answer])

\* the severity threshold check made before the success is counted
AfterFetch_GateBeforeCount(f, answer) ==
    IF answer # None /\ ~SeverityCheckSkips(answer[1], f.global_threshold_str)
    THEN [f EXCEPT !.cve_details = answer, !.pc = "lock_success"]
    ELSE NextIdentifier([f EXCEPT !.cve_details = answer])

\* `cve_details = await self.nvd_client.get_cve_details(cve_id)` has returned
\* `answer` (a record or None): `if cve_details:` ... `else:` (not found)
AfterFetch(f, answer) ==
    IF answer # None THEN [f EXCEPT !.cve_details = answer, !.pc = "lock_success"]
    ELSE NextIdentifier([f EXCEPT !.cve_details = answer])

\* get_cve_details returns what the NVD holds for the identifier, or raises
NvdReturns(h) ==
    /\ handlers[h].pc = "await_nvd"
    /\ LET f == handlers[h]
           cve_id == CurrentCve(f)
       IN \E raises \in MayRaise :
            /\ Spend(raises)
            /\ handlers' = [handlers EXCEPT ![h] =
                   IF raises THEN OnException(f)
                   ELSE AfterFetch(f, nvd_records[cve_id])]
            /\ Log(h, <<Event(IF raises THEN "raised"
                              ELSE IF nvd_records[cve_id] = None THEN "not_found"
                              ELSE "fetched", cve_id)>>)
    /\ UNCHANGED <<storeVars, envVars, cmdVars, messages_left, statsVars, stats_lock>>

\* the guild's default used whatever the channel's override
ToSendCve_GuildDefault(f, raises) ==
    IF raises THEN OnException(f)
    ELSE [f EXCEPT !.verbose = f.guild_config[1].verbose_mode,
                   !.pc = "await_send_cve"]

\* the KEV embed sent in place of the CVE embed when the identifier is in the
\* catalogue
ToSendCve_KevFirst(f, raises) ==
    IF raises THEN OnException(f)
    ELSE [f EXCEPT !.verbose = get_effective_verbosity(f.message.channel),
                   !.pc = IF f.is_kev THEN "await_send_kev" ELSE "await_send_cve"]

\* From `verbose = self.db.get_effective_verbosity(...)` to the await of
\* message.channel.send(embed=embed): the read of the store or the making
\* of the embed may raise, which the outer except catches.
ToSendCve(f, raises) ==
    IF raises THEN OnException(f)
    ELSE [f EXCEPT !.verbose = get_effective_verbosity(f.message.channel),
                   !.pc = "await_send_cve"]

\* the KEV lookup made before the severity threshold check
AfterSuccess_KevFirst(f, raises) ==
    IF cisa_kev_client THEN [f EXCEPT !.is_kev = FALSE, !.pc = "await_kev"]
    ELSE IF SeverityCheckSkips(f.cve_details[1], f.global_threshold_str)
    THEN NextIdentifier(f)
    ELSE ToSendCve([f EXCEPT !.is_kev = FALSE], raises)

\* the threshold read from the store again for each identifier
AfterSuccess_ReadsStore(f, raises) ==
    IF SeverityCheckSkips(f.cve_details[1], get_cve_guild_config[1].cve_severity_threshold)
    THEN NextIdentifier(f)
    ELSE IF cisa_kev_client THEN [f EXCEPT !.is_kev = FALSE, !.pc = "await_kev"]
    ELSE ToSendCve([f EXCEPT !.is_kev = FALSE], raises)

\* After `stats_nvd_fallback_success += 1`: the severity threshold check, then
\* `is_kev = False` and, when there is a KEV client, the call of get_kev_entry
AfterSuccess(f, raises) ==
    IF SeverityCheckSkips(f.cve_details[1], f.global_threshold_str)
    THEN NextIdentifier(f)
    ELSE IF cisa_kev_client THEN [f EXCEPT !.is_kev = FALSE, !.pc = "await_kev"]
    ELSE ToSendCve([f EXCEPT !.is_kev = FALSE], raises)

\* what the step from frame f to frame g after the success count did, as the
\* trace records it: the call of get_kev_entry, the pass to the send, an
\* exception, or the skip of the identifier
AfterSuccessEvents(f, g) ==
    IF g.idx = f.idx /\ g.pc = "await_kev" THEN <<Event("kev_lookup", CurrentCve(f))>>
    ELSE IF g.idx = f.idx /\ g.pc = "await_send_cve" THEN <<>>
    ELSE IF g.idx = f.idx /\ g.pc = "lock_errors" THEN <<Event("raised", CurrentCve(f))>>
    ELSE <<Event("gate_skip", CurrentCve(f))>>

\* stats_nvd_fallback_success += 1 under the lock, and on to the next await
CountSuccess(h) ==
    /\ handlers[h].pc = "inc_success"
    /\ stats_nvd_fallback_success' = Increment(stats_nvd_fallback_success)
    /\ stats_lock' = FALSE
    /\ LET f == handlers[h]
       IN \E raises \in MayRaise :
            /\ Spend(raises /\ AfterSuccess(f, TRUE) # AfterSuccess(f, FALSE))
            /\ handlers' = [handlers EXCEPT ![h] = AfterSuccess(f, raises)]
            /\ Log(h, <<Event("inc_success", CurrentCve(f))>>
                          \o AfterSuccessEvents(f, AfterSuccess(f, raises)))
    /\ UNCHANGED <<storeVars, envVars, cmdVars, messages_left, stats_cve_lookups,
                   stats_api_errors_nvd>>

\* a failed KEV lookup that leaves the identifier flagged as exploited
AfterKev_FlagsOnError(f, kev_raises) ==
    [f EXCEPT !.is_kev = kev_raises \/ CurrentCve(f) \in kev_catalog]

\* `await self.bot.cisa_kev_client.get_kev_entry(cve_id)` returns the entry
\* of the catalogue or nothing, or raises: the inner except catches that,
\* logs it and leaves is_kev False
AfterKev(f, kev_raises) ==
    IF kev_raises THEN f
    ELSE [f EXCEPT !.is_kev = CurrentCve(f) \in kev_catalog]

KevReturns(h) ==
    /\ handlers[h].pc = "await_kev"
    /\ LET f == handlers[h]
           cve_id == CurrentCve(f)
       IN \E kev_raises \in MayRaise, raises \in BOOLEAN :
            /\ raises => faults_left > (IF kev_raises THEN 1 ELSE 0)
            /\ faults_left' = faults_left - (IF kev_raises THEN 1 ELSE 0)
                                          - (IF raises THEN 1 ELSE 0)
            /\ handlers' = [handlers EXCEPT ![h] =
                   ToSendCve(AfterKev(f, kev_raises), raises)]
            /\ Log(h, <<Event(IF kev_raises THEN "kev_raised"
                              ELSE IF cve_id \in kev_catalog THEN "kev_entry"
                              ELSE "kev_none", cve_id)>>
                          \o (IF raises THEN <<Event("raised", cve_id)>> ELSE <<>>))
    /\ UNCHANGED <<storeVars, envVars, cmdVars, messages_left, statsVars, stats_lock>>

SendEvent(op, f) == [op |-> op, cve |-> CurrentCve(f), verbose |-> f.verbose]

\* `await message.channel.send(embed=embed)` returns or raises
SendCveReturns(h) ==
    /\ handlers[h].pc = "await_send_cve"
    /\ \E raises \in MayRaise :
         /\ Spend(raises)
         /\ handlers' = [handlers EXCEPT ![h] =
                IF raises THEN OnException(@) ELSE [@ EXCEPT !.pc = "sleep_cve"]]
         /\ Log(h, <<IF raises THEN Event("raised", CurrentCve(handlers[h]))
                     ELSE SendEvent("send_cve", handlers[h])>>)
    /\ UNCHANGED <<storeVars, envVars, cmdVars, messages_left, statsVars, stats_lock>>

\* the loop moving on to the next identifier while the KEV embed of this
\* one is still to be sent
AfterCveSleep_MovesOn(f) == NextIdentifier([f EXCEPT !.processed_count = @ + 1])

\* the KEV embed sent for every identifier
AfterCveSleep_AlwaysKev(f) == [f EXCEPT !.pc = "await_send_kev"]

\* After the sleep that follows the CVE embed: `if is_kev and kev_entry_data`
\* the KEV embed is sent, else `processed_count += 1` ends the identifier
AfterCveSleep(f) ==
    IF f.is_kev THEN [f EXCEPT !.pc = "await_send_kev"]
    ELSE NextIdentifier([f EXCEPT !.processed_count = @ + 1])

\* `await asyncio.sleep(1.5)` after the CVE embed returns
SleepCveReturns(h) ==
    /\ handlers[h].pc = "sleep_cve"
    /\ handlers' = [handlers EXCEPT ![h] = AfterCveSleep(handlers[h])]
    /\ Log(h, <<Event("sleep", CurrentCve(handlers[h]))>>)
    /\ UNCHANGED <<storeVars, envVars, cmdVars, faults_left, messages_left, statsVars, stats_lock>>

\* the KEV embed sent without the sleep after it
AfterSendKev_NoDelay(f) == NextIdentifier([f EXCEPT !.processed_count = @ + 1])

\* the KEV embed is sent: `await asyncio.sleep(1.5)` comes next
AfterSendKev(f) == [f EXCEPT !.pc = "sleep_kev"]

\* `await message.channel.send(embed=kev_embed)` returns or raises
SendKevReturns(h) ==
    /\ handlers[h].pc = "await_send_kev"
    /\ \E raises \in MayRaise :
         /\ Spend(raises)
         /\ handlers' = [handlers EXCEPT ![h] =
                IF raises THEN OnException(@) ELSE AfterSendKev(@)]
         /\ Log(h, <<IF raises THEN Event("raised", CurrentCve(handlers[h]))
                     ELSE SendEvent("send_kev", handlers[h])>>)
    /\ UNCHANGED <<storeVars, envVars, cmdVars, messages_left, statsVars, stats_lock>>

\* `await asyncio.sleep(1.5)` after the KEV embed returns; processed_count += 1
SleepKevReturns(h) ==
    /\ handlers[h].pc = "sleep_kev"
    /\ handlers' = [handlers EXCEPT ![h] =
           NextIdentifier([handlers[h] EXCEPT !.processed_count = @ + 1])]
    /\ Log(h, <<Event("sleep", CurrentCve(handlers[h]))>>)
    /\ UNCHANGED <<storeVars, envVars, cmdVars, faults_left, messages_left, statsVars, stats_lock>>

\* an except outside the loop: the first error ends the batch
AfterError_EndsBatch(f) == AfterLoop(f)

\* The outer `except Exception`, once the error is counted: the loop goes on
\* with the next identifier
AfterError(f) == NextIdentifier(f)

\* stats_api_errors_nvd += 1 under the lock, in the outer except
CountError(h) ==
    /\ handlers[h].pc = "inc_errors"
    /\ stats_api_errors_nvd' = Increment(stats_api_errors_nvd)
    /\ stats_lock' = FALSE
    /\ handlers' = [handlers EXCEPT ![h] = AfterError(handlers[h])]
    /\ Log(h, <<Event("inc_errors", CurrentCve(handlers[h]))>>)
    /\ UNCHANGED <<storeVars, envVars, cmdVars, faults_left, messages_left, stats_cve_lookups,
                   stats_nvd_fallback_success>>

\* the notice reporting the number of mentions in the text
NoticeEvent_Mentions(f, raises) ==
    [op |-> IF raises THEN "notice_failed" ELSE "notice",
     found |-> Len(CVE_SCAN_REGEX(f.message.content)),
     shown |-> MAX_CVES_PER_MESSAGE]

\* "Found {len(found_cves_set)} unique CVEs, showing details for the first
\* {MAX_CVES_PER_MESSAGE}.": the send that delivered it, or the send that
\* raised
NoticeEvent(f, raises) ==
    [op |-> IF raises THEN "notice_failed" ELSE "notice",
     found |-> Cardinality(f.found_cves_set),
     shown |-> MAX_CVES_PER_MESSAGE]

\* The send of the truncation notice returns, or raises discord.HTTPException,
\* which is passed over
NoticeReturns(h) ==
    /\ handlers[h].pc = "await_notice"
    /\ handlers' = [handlers EXCEPT ![h].pc = "done", ![h].outcome = "summarized"]
    /\ \E raises \in MayRaise :
         /\ Spend(raises)
         /\ Log(h, <<NoticeEvent(handlers[h], raises)>>)
    /\ UNCHANGED <<storeVars, envVars, cmdVars, messages_left, statsVars, stats_lock>>

\* one step of an on_message invocation after it has received its message
LoopStep(h) ==
    \/ AcquireStatsLock(h)
    \/ CountLookup(h)
    \/ NvdReturns(h)
    \/ CountSuccess(h)
    \/ KevReturns(h)
    \/ SendCveReturns(h)
    \/ SleepCveReturns(h)
    \/ SendKevReturns(h)
    \/ SleepKevReturns(h)
    \/ CountError(h)

(***************************************************************************)
(* /cve lookup: lookup_subcommand and _perform_cve_lookup, one action per  *)
(* await.                                                                  *)
(***************************************************************************)
\* the locals of the invocation, and the calls and sends it has made
IdleLookup ==
    [pc |-> "idle", outcome |-> "pending", cve_id |-> <<>>, cve_id_upper |-> <<>>,
     cve_details |-> None, trace |-> <<>>]

\* an identifier followed by a line feed
Cve1Newline == Cve1 \o <<"\n">>

\* what a user may pass as the cve_id argument
LookupInputs == {Cve1, Cve1Lower, Cve2, NotACve, Cve1Newline}

\* the command is invoked: `await interaction.response.defer()`
LookupSubcommand(cve_id) ==
    /\ lookup_cmd.pc = "idle"
    /\ lookup_cmd' = [lookup_cmd EXCEPT !.pc = "await_defer", !.cve_id = cve_id]
    /\ UNCHANGED <<storeVars, envVars, slashVars, faults_left, messages_left, statsVars,
                   stats_lock, handlers, trace>>

\* After the defer: the format check of lookup_subcommand, then
\* _perform_cve_lookup(interaction, cve_id.upper()) up to its first await
AfterDefer(c) ==
    IF ~CVE_VALIDATE_REGEX(c.cve_id) THEN [c EXCEPT !.pc = "await_reject_send"]
    ELSE IF ~nvd_client
    THEN [c EXCEPT !.cve_id_upper = Upper(c.cve_id), !.pc = "await_reject_send"]
    ELSE [c EXCEPT !.cve_id_upper = Upper(c.cve_id), !.pc = "lock_lookups"]

\* the defer returns, or raises, which nothing in the command catches
DeferReturns ==
    /\ lookup_cmd.pc = "await_defer"
    /\ \E raises \in MayRaise :
         /\ Spend(raises)
         /\ lookup_cmd' =
                IF raises THEN [lookup_cmd EXCEPT !.pc = "done", !.outcome = "raised"]
                ELSE AfterDefer(lookup_cmd)
    /\ UNCHANGED <<storeVars, envVars, slashVars, messages_left, statsVars, stats_lock,
                   handlers, trace>>

\* the "Invalid CVE ID format" or "NVD client is not configured" reply is sent
LookupRejectSendReturns ==
    /\ lookup_cmd.pc = "await_reject_send"
    /\ \E raises \in MayRaise :
         /\ Spend(raises)
         /\ lookup_cmd' =
                IF raises THEN [lookup_cmd EXCEPT !.pc = "done", !.outcome = "raised"]
                ELSE [lookup_cmd EXCEPT
                        !.pc = "done",
                        !.outcome = IF lookup_cmd.cve_id_upper = <<>>
                                    THEN "invalid" ELSE "noclient",
                        !.trace = @ \o <<Event("send_reject", lookup_cmd.cve_id)>>]
    /\ UNCHANGED <<storeVars, envVars, slashVars, messages_left, statsVars, stats_lock,
                   handlers, trace>>

\* `async with self.bot.stats_lock` in _perform_cve_lookup
LookupAcquireStatsLock ==
    /\ lookup_cmd.pc \in {"lock_lookups", "lock_success", "lock_errors"}
    /\ LockIsFree
    /\ stats_lock' = TRUE
    /\ lookup_cmd' = [lookup_cmd EXCEPT !.pc =
           CASE @ = "lock_lookups" -> "inc_lookups"
             [] @ = "lock_success" -> "inc_success"
             [] @ = "lock_errors" -> "inc_errors"]
    /\ UNCHANGED <<storeVars, envVars, slashVars, faults_left, messages_left, statsVars,
                   handlers, trace>>

\* stats_cve_lookups += 1 under the lock, then get_cve_details is called
LookupCountLookup ==
    /\ lookup_cmd.pc = "inc_lookups"
    /\ stats_cve_lookups' = Increment(stats_cve_lookups)
    /\ stats_lock' = FALSE
    /\ lookup_cmd' = [lookup_cmd EXCEPT
           !.pc = "await_nvd",
           !.trace = @ \o <<Event("inc_lookups", lookup_cmd.cve_id_upper),
                            Event("fetch", lookup_cmd.cve_id_upper)>>]
    /\ UNCHANGED <<storeVars, envVars, slashVars, faults_left, messages_left,
                   stats_nvd_fallback_success, stats_api_errors_nvd, handlers, trace>>

\* get_cve_details returns a record (`if cve_details:`), returns None (the
\* "Could not find details" reply is sent), or raises (`except Exception`)
LookupNvdReturns ==
    /\ lookup_cmd.pc = "await_nvd"
    /\ LET answer == IF lookup_cmd.cve_id_upper \in DOMAIN nvd_records
                     THEN nvd_records[lookup_cmd.cve_id_upper] ELSE None
       IN \E raises \in MayRaise :
            /\ Spend(raises)
            /\ lookup_cmd' =
                 IF raises
                 THEN [lookup_cmd EXCEPT
                         !.pc = "lock_errors",
                         !.trace = @ \o <<Event("raised", lookup_cmd.cve_id_upper)>>]
                 ELSE [lookup_cmd EXCEPT
                         !.cve_details = answer,
                         !.pc = IF answer # None THEN "lock_success" ELSE "await_followup",
                         !.trace = @ \o <<Event(IF answer # None THEN "fetched"
                                                ELSE "not_found",
                                                lookup_cmd.cve_id_upper)>>]
    /\ UNCHANGED <<storeVars, envVars, slashVars, messages_left, statsVars, stats_lock,
                   handlers, trace>>

\* stats_nvd_fallback_success += 1 under the lock; the embed is made and sent
LookupCountSuccess ==
    /\ lookup_cmd.pc = "inc_success"
    /\ stats_nvd_fallback_success' = Increment(stats_nvd_fallback_success)
    /\ stats_lock' = FALSE
    /\ lookup_cmd' = [lookup_cmd EXCEPT
           !.pc = "await_followup",
           !.trace = @ \o <<Event("inc_success", lookup_cmd.cve_id_upper)>>]
    /\ UNCHANGED <<storeVars, envVars, slashVars, faults_left, messages_left, stats_cve_lookups,
                   stats_api_errors_nvd, handlers, trace>>

\* `await interaction.followup.send(...)` inside the try returns or raises
LookupFollowupReturns ==
    /\ lookup_cmd.pc = "await_followup"
    /\ \E raises \in MayRaise :
         /\ Spend(raises)
         /\ lookup_cmd' =
              IF raises
              THEN [lookup_cmd EXCEPT
                      !.pc = "lock_errors",
                      !.trace = @ \o <<Event("raised", lookup_cmd.cve_id_upper)>>]
              ELSE [lookup_cmd EXCEPT
                      !.pc = "done",
                      !.outcome = IF lookup_cmd.cve_details # None
                                  THEN "found" ELSE "not_found",
                      !.trace = @ \o <<Event("send_reply", lookup_cmd.cve_id_upper)>>]
    /\ UNCHANGED <<storeVars, envVars, slashVars, messages_left, statsVars, stats_lock,
                   handlers, trace>>

\* stats_api_errors_nvd += 1 under the lock, in the except of
\* _perform_cve_lookup; the "unexpected error" reply is sent next
LookupCountError ==
    /\ lookup_cmd.pc = "inc_errors"
    /\ stats_api_errors_nvd' = Increment(stats_api_errors_nvd)
    /\ stats_lock' = FALSE
    /\ lookup_cmd' = [lookup_cmd EXCEPT
           !.pc = "await_error_send",
           !.trace = @ \o <<Event("inc_errors", lookup_cmd.cve_id_upper)>>]
    /\ UNCHANGED <<storeVars, envVars, slashVars, faults_left, messages_left, stats_cve_lookups,
                   stats_nvd_fallback_success, handlers, trace>>

\* the "unexpected error" reply returns, or raises out of the command
LookupErrorSendReturns ==
    /\ lookup_cmd.pc = "await_error_send"
    /\ \E raises \in MayRaise :
         /\ Spend(raises)
         /\ lookup_cmd' =
              IF raises THEN [lookup_cmd EXCEPT !.pc = "done", !.outcome = "raised"]
              ELSE [lookup_cmd EXCEPT
                      !.pc = "done", !.outcome = "error",
                      !.trace = @ \o <<Event("send_error", lookup_cmd.cve_id_upper)>>]
    /\ UNCHANGED <<storeVars, envVars, slashVars, messages_left, statsVars, stats_lock,
                   handlers, trace>>

\* one step of the /cve lookup invocation
LookupStep ==
    \/ DeferReturns
    \/ LookupRejectSendReturns
    \/ LookupAcquireStatsLock
    \/ LookupCountLookup
    \/ LookupNvdReturns
    \/ LookupCountSuccess
    \/ LookupFollowupReturns
    \/ LookupCountError
    \/ LookupErrorSendReturns

(***************************************************************************)
(* The policy commands (/cve channels, /verbose, /cve threshold).  A       *)
(* command makes its store calls without awaiting between them, so it runs *)
(* from its invocation to its reply in one step.                           *)
(***************************************************************************)
\* policy commands invoked in one behaviour
MaxCommands == 2

\* db.set_cve_guild_config: writes the guild's row, new or not
set_cve_guild_config(enabled, verbose_mode, severity_threshold) ==
    Some(GuildConfig(enabled, verbose_mode, severity_threshold))

\* db.update_cve_guild_enabled: updates the guild's row where there is one
update_cve_guild_enabled(config, enabled) ==
    IF config = None THEN None
    ELSE Some([config[1] EXCEPT !.cve_monitoring_enabled = enabled])

\* db.update_cve_guild_verbose_mode: updates the guild's row where there is one
update_cve_guild_verbose_mode(config, verbose_mode) ==
    IF config = None THEN None
    ELSE Some([config[1] EXCEPT !.verbose_mode = verbose_mode])

\* db.update_cve_guild_severity_threshold: updates the guild's row where
\* there is one
update_cve_guild_severity_threshold(config, level) ==
    IF config = None THEN None
    ELSE Some([config[1] EXCEPT !.cve_severity_threshold = level])

\* db.add_or_update_cve_channel(enabled=..., verbose_mode=None): creates the
\* channel's row or sets its enabled flag, its override left as it is
add_or_update_cve_channel(rows, channel_id, enabled) ==
    [rows EXCEPT ![channel_id] =
        IF @ = None THEN Some(ChannelRow(enabled, None))
        ELSE Some([@[1] EXCEPT !.enabled = enabled])]

\* db.remove_cve_channel: deletes the channel's row
remove_cve_channel(rows, channel_id) == [rows EXCEPT ![channel_id] = None]

\* db.set_channel_verbosity: sets the channel's override (None: inherit),
\* creating the row on the channel's first write
set_channel_verbosity(rows, channel_id, verbosity) ==
    [rows EXCEPT ![channel_id] =
        IF @ = None THEN Some(ChannelRow(TRUE, verbosity))
        ELSE Some([@[1] EXCEPT !.verbose_mode = verbosity])]

\* db.set_all_channel_verbosity: sets the override of every row of the guild
set_all_channel_verbosity(rows, verbosity) ==
    [c \in Channels |->
        IF rows[c] = None THEN None
        ELSE Some([rows[c][1] EXCEPT !.verbose_mode = Some(verbosity)])]

\* which store call of a command raises: none (0) or the raise_at-th
RaiseAt == IF faults_left > 0 THEN 0..5 ELSE {0}

\* A command's run: the store as its calls have left it, the calls made so
\* far and whether one raised.
Run(guild, rows) == [guild |-> guild, rows |-> rows, calls |-> 0, raised |-> FALSE]

\* one store call that would leave the store as (guild, rows); after a raise
\* the try block makes no further call
Call(s, raise_at, guild, rows) ==
    IF s.raised THEN s
    ELSE IF s.calls + 1 = raise_at THEN [s EXCEPT !.calls = @ + 1, !.raised = TRUE]
    ELSE [guild |-> guild, rows |-> rows, calls |-> s.calls + 1, raised |-> FALSE]

\* a store read, such as db.get_cve_guild_config
ReadCall(s, raise_at) == Call(s, raise_at, s.guild, s.rows)

\* _ensure_guild_config: reads the guild's row and creates the default one
\* where there is none; it returns False (here: raised) when a call raises
ensure_guild_config(s, raise_at) ==
    LET guild_config == ReadCall(s, raise_at) IN
    IF ~guild_config.raised /\ guild_config.guild = None
    THEN Call(guild_config, raise_at,
              set_cve_guild_config(TRUE, FALSE, "all"), guild_config.rows)
    ELSE guild_config

PolicyCommand(count, op, channel, verbosity, level, had_config, result) ==
    [count |-> count, op |-> op, channel |-> channel, verbosity |-> verbosity,
     level |-> level, had_config |-> had_config, result |-> result]

NoPolicyCommand == PolicyCommand(0, "none", "c1", FALSE, "all", FALSE, "none")

\* A command replies: the store is as its run left it, and policy_cmd holds
\* the command, whether the guild had a row when it was invoked, and the
\* reply ("ok", "error", "not_ensured", "unavailable").
Replies(op, channel, verbosity, level, s, result) ==
    /\ policy_cmd.count < MaxCommands
    /\ cve_guild_config' = s.guild
    /\ cve_channel_configs' = s.rows
    /\ policy_cmd' = PolicyCommand(policy_cmd.count + 1, op, channel, verbosity, level,
                                   cve_guild_config # None, result)
    /\ Spend(s.raised)
    /\ UNCHANGED <<envVars, lookup_cmd, latest_cmd, messages_left, statsVars,
                   stats_lock, handlers, trace>>

\* the reply of a command that guards on self.db, then on
\* _ensure_guild_config, then runs its try block
ReplyOf(ensured, s) ==
    IF ~db THEN "unavailable"
    ELSE IF ensured.raised THEN "not_ensured"
    ELSE IF s.raised THEN "error" ELSE "ok"

\* the run a command ends with: nothing is called without self.db
EndOf(start, s) == IF db THEN s ELSE start

\* the command without the update of the guild's monitoring flag
channels_add_command_RowOnly(channel, raise_at) ==
    LET start == Run(cve_guild_config, cve_channel_configs)
        ensured == ensure_guild_config(start, raise_at)
        guild_config == ReadCall(ensured, raise_at)
        added == Call(guild_config, raise_at, guild_config.guild,
                      add_or_update_cve_channel(guild_config.rows, channel, TRUE))
    IN Replies("channels_add", channel, FALSE, "all", EndOf(start, added),
               ReplyOf(ensured, added))

\* /cve channels add
channels_add_command(channel, raise_at) ==
    LET start == Run(cve_guild_config, cve_channel_configs)
        ensured == ensure_guild_config(start, raise_at)
        guild_config == ReadCall(ensured, raise_at)
        enabled ==
            IF /\ ~guild_config.raised
               /\ guild_config.guild # None
               /\ ~guild_config.guild[1].cve_monitoring_enabled
            THEN Call(guild_config, raise_at,
                      update_cve_guild_enabled(guild_config.guild, TRUE), guild_config.rows)
            ELSE guild_config
        added == Call(enabled, raise_at, enabled.guild,
                      add_or_update_cve_channel(enabled.rows, channel, TRUE))
    IN Replies("channels_add", channel, FALSE, "all", EndOf(start, added),
               ReplyOf(ensured, added))

\* the command that disables the channel's row where it should delete it
channels_remove_command_Disables(channel, raise_at) ==
    LET start == Run(cve_guild_config, cve_channel_configs)
        removed == Call(start, raise_at, start.guild,
                        add_or_update_cve_channel(start.rows, channel, FALSE))
    IN Replies("channels_remove", channel, FALSE, "all", EndOf(start, removed),
               ReplyOf(start, removed))

\* /cve channels remove
channels_remove_command(channel, raise_at) ==
    LET start == Run(cve_guild_config, cve_channel_configs)
        removed == Call(start, raise_at, start.guild, remove_cve_channel(start.rows, channel))
    IN Replies("channels_remove", channel, FALSE, "all", EndOf(start, removed),
               ReplyOf(start, removed))

\* /cve channels disable_global and enable_global
SetGlobalEnabled(op, enabled, raise_at) ==
    LET start == Run(cve_guild_config, cve_channel_configs)
        ensured == ensure_guild_config(start, raise_at)
        updated == Call(ensured, raise_at,
                        update_cve_guild_enabled(ensured.guild, enabled), ensured.rows)
    IN Replies(op, "c1", FALSE, "all", EndOf(start, updated), ReplyOf(ensured, updated))

channels_disable_global_command(raise_at) ==
    SetGlobalEnabled("channels_disable_global", FALSE, raise_at)

channels_enable_global_command(raise_at) ==
    SetGlobalEnabled("channels_enable_global", TRUE, raise_at)

\* /verbose enable_global and disable_global: the update is their one store
\* call
SetGlobalVerbose(op, verbosity, raise_at) ==
    LET start == Run(cve_guild_config, cve_channel_configs)
        updated == Call(start, raise_at,
                        update_cve_guild_verbose_mode(start.guild, verbosity), start.rows)
    IN Replies(op, "c1", verbosity, "all", EndOf(start, updated), ReplyOf(start, updated))

verbose_enable_global_command(raise_at) ==
    SetGlobalVerbose("verbose_enable_global", TRUE, raise_at)

verbose_disable_global_command(raise_at) ==
    SetGlobalVerbose("verbose_disable_global", FALSE, raise_at)

\* /verbose set: creates the default guild row itself, inside its try block
verbose_channel_set_command(channel, verbosity, raise_at) ==
    LET start == Run(cve_guild_config, cve_channel_configs)
        guild_config == ReadCall(start, raise_at)
        initialized ==
            IF ~guild_config.raised /\ guild_config.guild = None
            THEN Call(guild_config, raise_at,
                      set_cve_guild_config(TRUE, FALSE, "all"), guild_config.rows)
            ELSE guild_config
        updated == Call(initialized, raise_at, initialized.guild,
                        set_channel_verbosity(initialized.rows, channel, Some(verbosity)))
    IN Replies("verbose_set", channel, verbosity, "all", EndOf(start, updated),
               ReplyOf(start, updated))

\* /verbose unset
verbose_channel_unset_command(channel, raise_at) ==
    LET start == Run(cve_guild_config, cve_channel_configs)
        updated == Call(start, raise_at, start.guild,
                        set_channel_verbosity(start.rows, channel, None))
    IN Replies("verbose_unset", channel, FALSE, "all", EndOf(start, updated),
               ReplyOf(start, updated))

\* /verbose setall
verbose_channel_setall_command(verbosity, raise_at) ==
    LET start == Run(cve_guild_config, cve_channel_configs)
        updated == Call(start, raise_at, start.guild,
                        set_all_channel_verbosity(start.rows, verbosity))
    IN Replies("verbose_setall", "c1", verbosity, "all", EndOf(start, updated),
               ReplyOf(start, updated))

\* /cve threshold set and reset
SetThreshold(op, level, raise_at) ==
    LET start == Run(cve_guild_config, cve_channel_configs)
        ensured == ensure_guild_config(start, raise_at)
        updated == Call(ensured, raise_at,
                        update_cve_guild_severity_threshold(ensured.guild, level),
                        ensured.rows)
    IN Replies(op, "c1", FALSE, level, EndOf(start, updated), ReplyOf(ensured, updated))

threshold_set_command(level, raise_at) == SetThreshold("threshold_set", level, raise_at)

\* the reset that stores a label outside the five levels
threshold_reset_command_ToNone(raise_at) == SetThreshold("threshold_reset", "none", raise_at)

\* /cve threshold reset
threshold_reset_command(raise_at) == SetThreshold("threshold_reset", "all", raise_at)

\* one policy command, invoked by a member who may manage the guild
PolicyStep ==
    \E raise_at \in RaiseAt :
        \/ \E channel \in Channels : channels_add_command(channel, raise_at)
        \/ \E channel \in Channels : channels_remove_command(channel, raise_at)
        \/ channels_disable_global_command(raise_at)
        \/ channels_enable_global_command(raise_at)
        \/ verbose_enable_global_command(raise_at)
        \/ verbose_disable_global_command(raise_at)
        \/ \E channel \in Channels, verbosity \in BOOLEAN :
               verbose_channel_set_command(channel, verbosity, raise_at)
        \/ \E channel \in Channels : verbose_channel_unset_command(channel, raise_at)
        \/ \E verbosity \in BOOLEAN : verbose_channel_setall_command(verbosity, raise_at)
        \/ \E level \in SeverityLevels : threshold_set_command(level, raise_at)
        \/ threshold_reset_command(raise_at)

(***************************************************************************)
(* /cve latest: the recent-CVE query.  A record of the window is a dict;   *)
(* an entry of it is None when the key is absent, Some(None) when the key  *)
(* is there with a null value, Some(Some(v)) when it holds v.              *)
(***************************************************************************)
Absent == None
Null == Some(None)
Holds(v) == Some(Some(v))

\* dict.get(key, default): None for a null value, else Some(value)
Get(entry, default) == IF entry = Absent THEN default ELSE entry[1]

\* A "published" string: ISO 8601 without an offset (as NVD writes it) at
\* time t, ISO 8601 ending in "Z" or an offset, or no ISO 8601 date at all.
\* Times are counted in days from the epoch.
IsoNaive(t) == [form |-> "naive", t |-> t]
IsoAware(t) == [form |-> "aware", t |-> t]
NotIso == [form |-> "garbage", t |-> 0]

\* "1970-01-01T00:00:00.000", the default of cve_entry.get("published", ...)
EpochString == IsoNaive(0)

RecentCve(id, cvss, published, description) ==
    [id |-> id, cvss |-> cvss, published |-> published, description |-> description]

\* the lower-case letter of a character
LowerChar(ch) ==
    CASE ch = "A" -> "a" [] ch = "C" -> "c" [] ch = "M" -> "m" [] ch = "E" -> "e"
      [] ch = "V" -> "v" [] OTHER -> ch

\* str.lower()
Lower(text) == [i \in 1..Len(text) |-> LowerChar(text[i])]

\* `needle in text`
Contains(text, needle) ==
    \E i \in 1..(Len(text) - Len(needle) + 1) :
        SubSeq(text, i, i + Len(needle) - 1) = needle

\* the min_score table of the severity filter, in tenths
LatestMinScore(severity) ==
    CASE severity = "critical" -> 90
      [] severity = "high" -> 70
      [] severity = "medium" -> 40
      [] severity = "low" -> 1
      [] OTHER -> 0

\* `cve.get("cvss", 0) >= min_score` raises TypeError on a null score
SeverityFilterRaises(cves) == \E i \in DOMAIN cves : cves[i].cvss = Null

\* [cve for cve in filtered_cves if cve.get("cvss", 0) >= min_score], no
\* score being null
SeverityFilter(cves, severity) ==
    SelectSeq(cves, LAMBDA cve : Get(cve.cvss, Some(0))[1] >= LatestMinScore(severity))

\* [cve for cve in filtered_cves if needle.lower() in
\*  cve.get("description", "").lower()]
DescriptionFilter(cves, needle) ==
    SelectSeq(cves, LAMBDA cve : Contains(Lower(Get(cve.description, Some(<<>>))[1]), Lower(needle)))

\* an in_kev filter that compares identifiers without regard to case
KevFilter_IgnoresCase(cves, kev_catalog_cves, in_kev) ==
    SelectSeq(cves, LAMBDA cve :
        (\E k \in kev_catalog_cves : Upper(k) = Upper(cve.id)) = in_kev)

\* the in_kev filter over the set of the catalogue's cveID values
KevFilter(cves, kev_catalog_cves, in_kev) ==
    SelectSeq(cves, LAMBDA cve : (cve.id \in kev_catalog_cves) = in_kev)

\* an instant: naive or aware of its offset
DateTime(aware, t) == [raised |-> FALSE, aware |-> aware, t |-> t]
KeyRaised == [raised |-> TRUE, aware |-> FALSE, t |-> 0]

\* get_sort_key: datetime.fromisoformat(pub_date_str.replace("Z", "+00:00"))
\* where ValueError and TypeError give the epoch in UTC; a null value has no
\* replace (AttributeError), which the key does not catch
get_sort_key(cve_entry) ==
    LET pub_date_str == Get(cve_entry.published, Some(EpochString)) IN
    IF pub_date_str = None THEN KeyRaised
    ELSE IF pub_date_str[1].form = "garbage" THEN DateTime(TRUE, 0)
    ELSE DateTime(pub_date_str[1].form = "aware", pub_date_str[1].t)

\* cve with key k goes after the entries whose key is not older
RECURSIVE InsertDescending(_, _)
InsertDescending(sorted, cve) ==
    IF sorted = <<>> THEN <<cve>>
    ELSE IF get_sort_key(sorted[1]).t >= get_sort_key(cve).t
    THEN <<sorted[1]>> \o InsertDescending(Tail(sorted), cve)
    ELSE <<cve>> \o sorted

\* list.sort(key=get_sort_key, reverse=True) where it succeeds: stable,
\* most recent first
RECURSIVE StableDescending(_)
StableDescending(cves) ==
    IF cves = <<>> THEN <<>>
    ELSE InsertDescending(StableDescending(SubSeq(cves, 1, Len(cves) - 1)),
                          cves[Len(cves)])

\* the orders a list may be left in
PermutationsOf(cves) ==
    {[i \in DOMAIN cves |-> cves[p[i]]] :
        p \in {f \in [DOMAIN cves -> DOMAIN cves] : \A i, j \in DOMAIN cves :
                                                    f[i] = f[j] => i = j}}

\* The sort of filtered_cves.  The keys are computed first: a key that
\* raises leaves the list as it was.  Comparing a naive with an aware
\* datetime raises TypeError, which leaves the list in some order.
SortOutcomes(cves) ==
    IF \E i \in DOMAIN cves : get_sort_key(cves[i]).raised
    THEN {[cves |-> cves, raised |-> TRUE]}
    ELSE IF \E i, j \in DOMAIN cves :
                get_sort_key(cves[i]).aware # get_sort_key(cves[j]).aware
    THEN {[cves |-> p, raised |-> TRUE] : p \in PermutationsOf(cves)}
    ELSE {[cves |-> StableDescending(cves), raised |-> FALSE]}

\* /cve latest before it is invoked.  `steps` lists what the invocation has
\* done; `recent` is the fetched window, `filtered` is filtered_cves (which
\* the sort orders in place, `before_sort` being what it held before),
\* `results` is results_to_show, `response` the reply.
IdleLatest ==
    [pc |-> "idle", outcome |-> "pending", count |-> 1, severity |-> None,
     vendor |-> None, product |-> None, in_kev |-> None, recent |-> None,
     filtered |-> <<>>, kev_catalog_cves |-> {}, before_sort |-> <<>>,
     results |-> <<>>, steps |-> <<>>, sort_raised |-> FALSE,
     failed_at |-> "none", response |-> [kind |-> "none"]]

\* the arguments of the command: count is in 1..10, severity one of the four
\* choices
LatestCounts == {1, 2, 7}
LatestSeverities == {None} \cup {Some(l) : l \in {"critical", "high", "medium", "low"}}
AcmeText == <<"A", "c", "m", "e">>
LatestNeedles == {<<None, None>>, <<Some(AcmeText), None>>, <<None, Some(<<"v", "2">>)>>}

AcmeDescription == Holds(<<"a", "c", "m", "e", " ", "v", "1">>)
OtherDescription == Holds(<<"V", "2">>)

\* a record with a score and a date, published on day t
PlainCve(id, t) == RecentCve(id, Holds(50), Holds(IsoNaive(t)), AcmeDescription)

\* what nvd_client.get_recent_cves may return: nothing (None), an empty
\* window, or a window of records.  The windows vary one field at a time:
\* the score, the date, the identifier and the description.
ScoreEntries == {Absent, Null, Holds(0), Holds(39), Holds(40), Holds(70), Holds(89), Holds(90)}
DateEntries == {Absent, Null, Holds(IsoNaive(1)), Holds(IsoNaive(2)), Holds(IsoAware(2)),
                Holds(NotIso)}

ScoreWindows ==
    {<<RecentCve(Cve1, a, Holds(IsoNaive(2)), AcmeDescription)>> : a \in ScoreEntries}
    \cup {<<RecentCve(Cve1, a, Holds(IsoNaive(2)), AcmeDescription),
            RecentCve(Cve2, b, Holds(IsoNaive(1)), OtherDescription)>> :
              a \in ScoreEntries, b \in ScoreEntries}

DateWindows ==
    {<<RecentCve(Cve1, Holds(95), a, AcmeDescription)>> : a \in DateEntries}
    \cup {<<RecentCve(Cve1, Holds(95), a, AcmeDescription),
            RecentCve(Cve2, Holds(95), b, AcmeDescription),
            RecentCve(CveNo("3"), Holds(95), c, AcmeDescription)>> :
              a \in DateEntries, b \in DateEntries, c \in DateEntries}

KevWindows ==
    {<<PlainCve(a, 3), PlainCve(b, 2)>> : a \in {Cve1, Cve2, Cve1Lower}, b \in {Cve1, Cve2}}

LongWindow ==
    [i \in 1..7 |->
        PlainCve(CveNo(<<"1", "2", "3", "4", "5", "6", "7">>[i]),
                 CASE i = 1 -> 3 [] i = 2 -> 7 [] i = 3 -> 1 [] i = 4 -> 5
                   [] i = 5 -> 5 [] i = 6 -> 2 [] OTHER -> 6)]

RecentResults ==
    {None, Some(<<>>), Some(LongWindow)}
        \cup {Some(w) : w \in ScoreWindows \cup DateWindows \cup KevWindows}

\* the command is invoked: without the NVD client, or without the KEV client
\* when in_kev is given, it replies at once; else it defers
cve_latest_command(count, severity, vendor, product, in_kev) ==
    /\ latest_cmd.pc = "idle"
    /\ latest_cmd' =
         [latest_cmd EXCEPT
            !.count = count, !.severity = severity, !.vendor = vendor,
            !.product = product, !.in_kev = in_kev,
            !.pc = IF ~nvd_client \/ (in_kev # None /\ ~cisa_kev_client)
                   THEN "await_reject_send" ELSE "await_defer",
            !.response = IF ~nvd_client THEN [kind |-> "no_nvd"]
                         ELSE IF in_kev # None /\ ~cisa_kev_client THEN [kind |-> "no_kev"]
                         ELSE @]
    /\ UNCHANGED <<storeVars, envVars, lookup_cmd, policy_cmd, faults_left, messages_left,
                   statsVars, stats_lock, handlers, trace>>

\* the "client is not available" reply is sent; nothing catches its failure
LatestRejectSendReturns ==
    /\ latest_cmd.pc = "await_reject_send"
    /\ \E raises \in MayRaise :
         /\ Spend(raises)
         /\ latest_cmd' = [latest_cmd EXCEPT
                !.pc = "done",
                !.outcome = IF raises THEN "raised" ELSE latest_cmd.response.kind]
    /\ UNCHANGED <<storeVars, envVars, lookup_cmd, policy_cmd, messages_left, statsVars,
                   stats_lock, handlers, trace>>

\* the defer returns, or raises, which nothing in the command catches; then
\* `await self.nvd_client.get_recent_cves(days=days)`
LatestDeferReturns ==
    /\ latest_cmd.pc = "await_defer"
    /\ \E raises \in MayRaise :
         /\ Spend(raises)
         /\ latest_cmd' =
                IF raises THEN [latest_cmd EXCEPT !.pc = "done", !.outcome = "raised"]
                ELSE [latest_cmd EXCEPT !.pc = "await_recent",
                                        !.steps = @ \o <<"fetch_recent">>]
    /\ UNCHANGED <<storeVars, envVars, lookup_cmd, policy_cmd, messages_left, statsVars,
                   stats_lock, handlers, trace>>

\* the outer `except Exception`: the "unexpected error" reply is sent
OnLatestException(c, step) == [c EXCEPT !.pc = "await_error_send", !.failed_at = step]

\* the reply of a query that found records: the footer has the number of
\* filtered records and the number of results; the description lists five
\* results at most and says how many more there are
ResultsEmbed(filtered_cves, results_to_show) ==
    [kind |-> "results",
     found |-> Len(filtered_cves),
     shown |-> Len(results_to_show),
     listed |-> [i \in 1..Min(5, Len(results_to_show)) |-> results_to_show[i].id],
     more |-> IF Len(results_to_show) > 5 THEN Len(results_to_show) - 5 ELSE 0]

\* a query that cuts to the count before it sorts
SortAndLimit_LimitFirst(c, filtered_cves, sorted) ==
    LET results_to_show ==
            StableDescending(SubSeq(filtered_cves, 1, Min(c.count, Len(filtered_cves))))
    IN [c EXCEPT !.filtered = filtered_cves, !.before_sort = filtered_cves,
                 !.results = results_to_show, !.sort_raised = FALSE,
                 !.steps = @ \o <<"truncate", "sort">>,
                 !.pc = "await_followup",
                 !.response = IF results_to_show = <<>> THEN [kind |-> "no_match"]
                              ELSE ResultsEmbed(filtered_cves, results_to_show)]

\* a query that a failing sort ends
SortAndLimit_SortFails(c, filtered_cves, sorted) ==
    IF sorted.raised
    THEN OnLatestException([c EXCEPT !.filtered = sorted.cves, !.before_sort = filtered_cves,
                                     !.sort_raised = TRUE, !.steps = @ \o <<"sort">>], "sort")
    ELSE LET results_to_show == SubSeq(sorted.cves, 1, Min(c.count, Len(sorted.cves)))
         IN [c EXCEPT !.filtered = sorted.cves, !.before_sort = filtered_cves,
                      !.results = results_to_show,
                      !.steps = @ \o <<"sort", "truncate">>,
                      !.pc = "await_followup",
                      !.response = IF results_to_show = <<>> THEN [kind |-> "no_match"]
                                   ELSE ResultsEmbed(filtered_cves, results_to_show)]

\* From the sort to the reply: the sort in its own try block,
\* results_to_show = filtered_cves[:count], then the "no CVEs matching"
\* message or the embed.  `sorted` is what the sort left of filtered_cves.
SortAndLimit(c, filtered_cves, sorted) ==
    LET results_to_show == SubSeq(sorted.cves, 1, Min(c.count, Len(sorted.cves)))
    IN [c EXCEPT !.filtered = sorted.cves, !.before_sort = filtered_cves,
                 !.results = results_to_show, !.sort_raised = sorted.raised,
                 !.steps = @ \o <<"sort", "truncate">>,
                 !.pc = "await_followup",
                 !.response = IF results_to_show = <<>> THEN [kind |-> "no_match"]
                              ELSE ResultsEmbed(sorted.cves, results_to_show)]

\* the frames the query may be left in once the filters are done
Sorted(c, filtered_cves) ==
    {SortAndLimit(c, filtered_cves, sorted) : sorted \in SortOutcomes(filtered_cves)}

\* the severity, vendor and product filters, in this order, each one only
\* when its argument is given
FilterSteps(c) ==
    (IF c.severity # None THEN <<"filter_severity">> ELSE <<>>)
        \o (IF c.vendor # None THEN <<"filter_vendor">> ELSE <<>>)
        \o (IF c.product # None THEN <<"filter_product">> ELSE <<>>)

Filtered(c, recent_cves) ==
    LET by_severity == IF c.severity # None
                       THEN SeverityFilter(recent_cves, c.severity[1]) ELSE recent_cves
        by_vendor == IF c.vendor # None
                     THEN DescriptionFilter(by_severity, c.vendor[1]) ELSE by_severity
    IN IF c.product # None THEN DescriptionFilter(by_vendor, c.product[1]) ELSE by_vendor

\* a window fetch whose empty result is reported as a failure
AfterRecent_EmptyIsFailure(c, recent_cves) ==
    [c EXCEPT !.recent = recent_cves, !.pc = "await_followup",
              !.response = [kind |-> "failed"]]

\* get_recent_cves has returned nothing or an empty window: the "Failed to
\* fetch" or the "No CVEs found published" message is sent and the command
\* returns
AfterRecent(c, recent_cves) ==
    [c EXCEPT !.recent = recent_cves, !.pc = "await_followup",
              !.response = [kind |-> IF recent_cves = None THEN "failed" ELSE "no_data"]]

\* `await self.nvd_client.get_recent_cves(days=days)` returns or raises;
\* the filters run, and the sort unless the KEV catalogue is to be fetched
RecentReturns ==
    /\ latest_cmd.pc = "await_recent"
    /\ \E raises \in MayRaise, recent_cves \in RecentResults :
         /\ Spend(raises)
         /\ LET c == latest_cmd
                fetched == [c EXCEPT !.recent = recent_cves]
            IN IF raises THEN latest_cmd' = OnLatestException(c, "fetch_recent")
               ELSE IF recent_cves = None \/ recent_cves = Some(<<>>)
               THEN latest_cmd' = AfterRecent(c, recent_cves)
               ELSE IF c.severity # None /\ SeverityFilterRaises(recent_cves[1])
               THEN latest_cmd' =
                        OnLatestException([fetched EXCEPT !.steps = @ \o <<"filter_severity">>],
                                          "filter_severity")
               ELSE IF c.in_kev # None /\ cisa_kev_client
               THEN latest_cmd' =
                        [fetched EXCEPT !.filtered = Filtered(c, recent_cves[1]),
                                        !.steps = @ \o FilterSteps(c) \o <<"fetch_catalog">>,
                                        !.pc = "await_catalog"]
               ELSE latest_cmd' \in
                        Sorted([fetched EXCEPT !.steps = @ \o FilterSteps(c)],
                               Filtered(c, recent_cves[1]))
    /\ UNCHANGED <<storeVars, envVars, lookup_cmd, policy_cmd, messages_left, statsVars,
                   stats_lock, handlers, trace>>

\* `await self.bot.cisa_kev_client.get_full_kev_catalog() or []` returns the
\* catalogue or nothing, or raises; the in_kev filter runs, then the sort
CatalogReturns ==
    /\ latest_cmd.pc = "await_catalog"
    /\ \E raises \in MayRaise, catalog \in {None, Some(kev_catalog)} :
         /\ Spend(raises)
         /\ LET c == latest_cmd
                kev_catalog_cves == IF catalog = None THEN {} ELSE catalog[1]
            IN IF raises THEN latest_cmd' = OnLatestException(c, "fetch_catalog")
               ELSE latest_cmd' \in
                        Sorted([c EXCEPT !.steps = @ \o <<"filter_kev">>,
                                         !.kev_catalog_cves = kev_catalog_cves],
                               KevFilter(c.filtered, kev_catalog_cves, c.in_kev[1]))
    /\ UNCHANGED <<storeVars, envVars, lookup_cmd, policy_cmd, messages_left, statsVars,
                   stats_lock, handlers, trace>>

\* the reply is sent: a failure of the send is caught by the outer except
LatestFollowupReturns ==
    /\ latest_cmd.pc = "await_followup"
    /\ \E raises \in MayRaise :
         /\ Spend(raises)
         /\ latest_cmd' =
                IF raises THEN OnLatestException(latest_cmd, "followup")
                ELSE [latest_cmd EXCEPT !.pc = "done", !.outcome = latest_cmd.response.kind]
    /\ UNCHANGED <<storeVars, envVars, lookup_cmd, policy_cmd, messages_left, statsVars,
                   stats_lock, handlers, trace>>

\* the "unexpected error" reply is sent; nothing catches its failure
LatestErrorSendReturns ==
    /\ latest_cmd.pc = "await_error_send"
    /\ \E raises \in MayRaise :
         /\ Spend(raises)
         /\ latest_cmd' = [latest_cmd EXCEPT
                !.pc = "done",
                !.response = [kind |-> "error"],
                !.outcome = IF raises THEN "raised" ELSE "error"]
    /\ UNCHANGED <<storeVars, envVars, lookup_cmd, policy_cmd, messages_left, statsVars,
                   stats_lock, handlers, trace>>

\* one step of the /cve latest invocation
LatestStep ==
    \/ LatestRejectSendReturns
    \/ LatestDeferReturns
    \/ RecentReturns
    \/ CatalogReturns
    \/ LatestFollowupReturns
    \/ LatestErrorSendReturns

(***************************************************************************)
(* Initial states: what the store, the clients and the two catalogues hold *)
(* when the cog starts.                                                    *)
(***************************************************************************)
Ascending == [i \in 1..7 |->
    CveNo(CASE i = 1 -> "1" [] i = 2 -> "2" [] i = 3 -> "3" [] i = 4 -> "4"
            [] i = 5 -> "5" [] i = 6 -> "6" [] OTHER -> "7")]
Descending == [i \in 1..7 |-> Ascending[8 - i]]

\* an NVD that holds answer1 for Cve1, answer2 for Cve2 and no other record
NvdWith(answer1, answer2) ==
    [c \in AllCves |-> IF c = Cve1 THEN answer1 ELSE IF c = Cve2 THEN answer2 ELSE None]

Scored(s) == Some([cvss |-> Some(s)])

InitBot ==
    /\ stats_cve_lookups = 0
    /\ stats_nvd_fallback_success = 0
    /\ stats_api_errors_nvd = 0
    /\ stats_lock = FALSE
    /\ handlers = [h \in Handlers |-> IdleHandler]
    /\ trace = [h \in Handlers |-> <<>>]
    /\ lookup_cmd = IdleLookup
    /\ policy_cmd = NoPolicyCommand
    /\ latest_cmd = IdleLatest

\* every severity level against every kind of record, in a guild monitored
\* in all its channels
InitGate ==
    /\ \E level \in SeverityLevels, verbose_mode \in BOOLEAN :
         cve_guild_config = Some(GuildConfig(TRUE, verbose_mode, level))
    /\ cve_channel_configs = NoRows
    /\ db = TRUE /\ nvd_client = TRUE
    /\ cisa_kev_client \in BOOLEAN
    /\ \E answer \in {None} \cup {Some(d) : d \in CveDetails} :
         nvd_records = NvdWith(answer, Scored(85))
    /\ kev_catalog = {Cve1}
    /\ hash_order \in {Ascending, Descending}

\* every guild policy against the channel rows, with and without each client
InitPolicy ==
    /\ cve_guild_config \in
         {None} \cup {Some(GuildConfig(e, v, l)) :
                         e \in BOOLEAN, v \in BOOLEAN, l \in {"all", "high"}}
    /\ cve_channel_configs \in
         [Channels -> {None} \cup {Some(r) : r \in ChannelRows}]
    /\ \E clients \in {<<TRUE, TRUE, TRUE>>, <<FALSE, TRUE, TRUE>>,
                        <<TRUE, FALSE, TRUE>>, <<TRUE, TRUE, FALSE>>} :
         db = clients[1] /\ nvd_client = clients[2] /\ cisa_kev_client = clients[3]
    /\ nvd_records = NvdWith(Scored(85), Scored(30))
    /\ kev_catalog = {Cve1}
    /\ hash_order = Ascending

\* the guild of the end-to-end scenarios: floor `high`, standard mode, a
\* record scored 8.0 that is not in the KEV catalogue and one scored 3.0
InitScenario ==
    /\ cve_guild_config = Some(GuildConfig(TRUE, FALSE, "high"))
    /\ cve_channel_configs = NoRows
    /\ db = TRUE /\ nvd_client = TRUE /\ cisa_kev_client = TRUE
    /\ nvd_records = NvdWith(Scored(80), Scored(30))
    /\ kev_catalog = {Cve2}
    /\ hash_order = Ascending

Init ==
    /\ InitBot
    /\ messages_left = 1
    /\ faults_left = MaxFaults
    /\ InitGate \/ InitPolicy \/ InitScenario

Next ==
    \E h \in Handlers :
        \/ \E message \in Messages : OnMessage(h, message)
        \/ LoopStep(h)

Spec == Init /\ [][Next]_vars

(***************************************************************************)
(* Long messages: more identifiers than MAX_CVES_PER_MESSAGE, and the      *)
(* truncation notice.                                                      *)
(***************************************************************************)
\* the first n identifiers, one per line
RECURSIVE CvesText(_)
CvesText(n) ==
    IF n = 0 THEN <<>> ELSE CvesText(n - 1) \o Ascending[n] \o <<"\n">>

\* one identifier mentioned five times, in either letter case
FiveMentionsText ==
    Cve1 \o <<" ">> \o Cve1Lower \o <<" ">> \o Cve1 \o <<" ">> \o Cve1Lower
         \o <<" ">> \o Cve1

\* six identifiers, the first of them mentioned three times
RepeatedLongText == CvesText(6) \o Cve1Lower \o <<" ">> \o Cve1

CapContents ==
    {CvesText(4), CvesText(5), CvesText(6), CvesText(7), FiveMentionsText, RepeatedLongText}

CapMessages == {Message(FALSE, TRUE, "c1", t) : t \in CapContents}

\* an NVD that holds a record scored 8.5 for every identifier, each of them
\* in the KEV catalogue (kev_catalog = AllCves)
AllExploited == [c \in AllCves |-> Scored(85)]

\* an NVD with records of every kind: above and below the threshold "high",
\* without a score, and missing
CapRecords ==
    [c \in AllCves |->
        CASE c = CveNo("1") -> Scored(85)
          [] c = CveNo("2") -> Scored(30)
          [] c = CveNo("3") -> None
          [] c = CveNo("4") -> Some([cvss |-> None])
          [] c = CveNo("5") -> Scored(95)
          [] c = CveNo("6") -> Scored(70)
          [] OTHER -> Scored(10)]

InitCap ==
    /\ InitBot
    /\ messages_left = 1
    /\ faults_left = MaxFaults
    /\ \E level \in {"all", "high"} :
         cve_guild_config = Some(GuildConfig(TRUE, FALSE, level))
    /\ cve_channel_configs = NoRows
    /\ db = TRUE /\ nvd_client = TRUE /\ cisa_kev_client = TRUE
    /\ \/ nvd_records = CapRecords /\ kev_catalog = {CveNo("1"), CveNo("6")}
       \/ nvd_records = AllExploited /\ kev_catalog = AllCves
    /\ hash_order \in {Ascending, Descending}

NextCap ==
    \E h \in Handlers :
        \/ \E message \in CapMessages : OnMessage(h, message)
        \/ LoopStep(h)
        \/ NoticeReturns(h)

SpecCap == InitCap /\ [][NextCap]_vars

(***************************************************************************)
(* Concurrent invocations: several messages and a /cve lookup command in   *)
(* flight at once, sharing the counters and the stats lock.                *)
(***************************************************************************)
\* one identifier, as a user types it or as the scan upper-cases it
ConcMessages == {Message(FALSE, TRUE, "c1", OneCveText), Message(FALSE, TRUE, "c1", Cve2)}

InitConc ==
    /\ InitBot
    /\ messages_left = MaxHandlers
    /\ faults_left = 1
    /\ cve_guild_config = Some(GuildConfig(TRUE, FALSE, "all"))
    /\ cve_channel_configs = NoRows
    /\ db = TRUE /\ nvd_client = TRUE /\ cisa_kev_client = TRUE
    /\ nvd_records = NvdWith(Scored(85), None)
    /\ kev_catalog = {Cve1}
    /\ hash_order = Ascending

NextConc ==
    \/ \E h \in Handlers :
        \/ \E message \in ConcMessages : OnMessage(h, message)
        \/ LoopStep(h)
    \/ \E cve_id \in LookupInputs : LookupSubcommand(cve_id)
    \/ LookupStep

SpecConc == InitConc /\ [][NextConc]_vars

(***************************************************************************)
(* Scanning: texts made of identifiers in every letter case, near misses,  *)
(* digits and filler, in every order.                                      *)
(***************************************************************************)
MixedCve2 == CveText(<<"c", "V", "e">>, <<"2", "0", "2", "4">>, <<"0", "0", "0", "2">>)

ScanTokens == {Cve1, Cve1Lower, MixedCve2, NotACve, <<"9">>, <<" ">>, <<"h", "i">>}

ScanContents ==
    ScanTokens \cup {a \o b : a, b \in ScanTokens}
               \cup {a \o b \o c : a, b, c \in ScanTokens}

ScanMessages == {Message(FALSE, TRUE, "c1", t) : t \in ScanContents}

\* every identifier some text of ScanContents holds
ScanCves == UNION {FoundCvesSet(t) : t \in ScanContents}

RECURSIVE OrderOf(_)
\* the members of a set in some order
OrderOf(S) ==
    IF S = {} THEN <<>>
    ELSE LET c == CHOOSE x \in S : TRUE IN <<c>> \o OrderOf(S \ {c})

InitScan ==
    /\ InitBot
    /\ messages_left = 1
    /\ faults_left = 1
    /\ cve_guild_config = Some(GuildConfig(TRUE, FALSE, "all"))
    /\ cve_channel_configs = NoRows
    /\ db = TRUE /\ nvd_client = TRUE /\ cisa_kev_client = TRUE
    /\ nvd_records = [c \in ScanCves |->
                         IF c = Cve1 THEN Scored(85)
                         ELSE IF c = Cve2 THEN None ELSE Scored(30)]
    /\ kev_catalog = {Cve1}
    /\ hash_order = OrderOf(ScanCves)

NextScan ==
    \E h \in Handlers :
        \/ \E message \in ScanMessages : OnMessage(h, message)
        \/ LoopStep(h)

SpecScan == InitScan /\ [][NextScan]_vars

\* Two messages at once, one mentioning two identifiers and one mentioning
\* one: Cve1 is in the KEV catalogue, Cve2 is not.
SeqMessages == {Message(FALSE, TRUE, "c1", TwoCvesText), Message(FALSE, TRUE, "c2", Cve2)}

InitSeq ==
    /\ InitBot
    /\ messages_left = 2
    /\ faults_left = 1
    /\ cve_guild_config = Some(GuildConfig(TRUE, FALSE, "all"))
    /\ cve_channel_configs = NoRows
    /\ db = TRUE /\ nvd_client = TRUE /\ cisa_kev_client = TRUE
    /\ \E answer \in {None, Scored(85)} : nvd_records = NvdWith(Scored(85), answer)
    /\ kev_catalog = {Cve1}
    /\ hash_order \in {Ascending, Descending}

NextSeq ==
    \E h \in Handlers :
        \/ \E message \in SeqMessages : OnMessage(h, message)
        \/ LoopStep(h)

SpecSeq == InitSeq /\ [][NextSeq]_vars

\* A message in a monitored channel while members disable the guild's
\* monitoring and remove the channel.  The event loop resumes every
\* coroutine whose awaited call has returned, and every call returns or
\* raises: each invocation's steps are weakly fair.
LiveMessages == {Message(FALSE, TRUE, "c1", t) : t \in {TwoCvesText, CvesText(6)}}

InitLive ==
    /\ InitBot
    /\ messages_left = 1
    /\ faults_left = 1
    /\ cve_guild_config = Some(GuildConfig(TRUE, FALSE, "all"))
    /\ cve_channel_configs = [NoRows EXCEPT !["c1"] = Some(ChannelRow(TRUE, None))]
    /\ db = TRUE /\ nvd_client = TRUE /\ cisa_kev_client = TRUE
    /\ nvd_records = CapRecords
    /\ kev_catalog = {CveNo("1"), CveNo("6")}
    /\ hash_order = Ascending

HandlerStep(h) == LoopStep(h) \/ NoticeReturns(h)

NextLive ==
    \/ \E h \in Handlers :
        \/ \E message \in LiveMessages : OnMessage(h, message)
        \/ HandlerStep(h)
    \/ \E raise_at \in RaiseAt :
        \/ channels_disable_global_command(raise_at)
        \/ channels_remove_command("c1", raise_at)

SpecLive ==
    InitLive /\ [][NextLive]_vars /\ \A h \in Handlers : WF_vars(HandlerStep(h))

\* The /cve latest command alone, with and without each client.
InitLatest ==
    /\ InitBot
    /\ messages_left = 0
    /\ faults_left = 1
    /\ cve_guild_config = Some(GuildConfig(TRUE, FALSE, "all"))
    /\ cve_channel_configs = NoRows
    /\ db = TRUE
    /\ nvd_client \in BOOLEAN
    /\ cisa_kev_client \in BOOLEAN
    /\ nvd_records = NvdWith(Scored(85), Scored(30))
    /\ kev_catalog = {Cve1}
    /\ hash_order = Ascending

NextLatest ==
    \/ \E count \in LatestCounts, severity \in LatestSeverities,
          needles \in LatestNeedles, in_kev \in {None, Some(TRUE), Some(FALSE)} :
            cve_latest_command(count, severity, needles[1], needles[2], in_kev)
    \/ LatestStep

SpecLatest == InitLatest /\ [][NextLatest]_vars

\* The policy commands alone, on a guild with and without its row and its
\* channel rows, with and without the store.
InitCommands ==
    /\ InitBot
    /\ messages_left = 0
    /\ faults_left = 1
    /\ cve_guild_config \in
         {None} \cup {Some(GuildConfig(e, v, "high")) : e \in BOOLEAN, v \in BOOLEAN}
    /\ cve_channel_configs \in
         [Channels -> {None, Some(ChannelRow(FALSE, None)),
                       Some(ChannelRow(TRUE, Some(TRUE)))}]
    /\ db \in BOOLEAN
    /\ nvd_client = TRUE /\ cisa_kev_client = TRUE
    /\ nvd_records = NvdWith(Scored(85), Scored(30))
    /\ kev_catalog = {Cve1}
    /\ hash_order = Ascending

NextCommands == PolicyStep

SpecCommands == InitCommands /\ [][NextCommands]_vars

(***************************************************************************)
(* Vocabulary of the properties.                                           *)
(***************************************************************************)
Last(q) == q[Len(q)]

\* the events of a trace whose op is one of ops
CountOps(q, ops) == Cardinality({k \in DOMAIN q : q[k].op \in ops})

RECURSIVE SumOver(_, _)
\* the sum of F(h) over the handlers of a set
SumOver(F(_), hs) ==
    IF hs = {} THEN 0
    ELSE LET h == CHOOSE x \in hs : TRUE IN F(h) + SumOver(F, hs \ {h})

Started(h) == handlers[h].pc # "idle"
Finished(h) == handlers[h].pc = "done"

\* no invocation is in progress
Quiescent == \A h \in Handlers : handlers[h].pc \in {"idle", "done"}

\* the invocation has made no call and no send, and has counted nothing
NoEffects(h) == trace[h] = <<>>

\* the severity table of the specification, in tenths
FloorOf(level) ==
    CASE level = "critical" -> 90 [] level = "high" -> 70 [] level = "medium" -> 40
      [] level = "low" -> 1 [] level = "all" -> 0

\* passes(score, floor) as the specification states it
Passes(cvss, level) == level = "all" \/ (cvss # None /\ cvss[1] >= FloorOf(level))

\* the frames in which the current identifier's record is past the gate
PastGatePcs == {"await_kev", "await_send_cve", "sleep_cve", "await_send_kev", "sleep_kev"}

\* the invocation has just skipped a record at the gate (the record is still
\* in cve_details)
JustSkipped(h) == trace[h] # <<>> /\ Last(trace[h]).op = "gate_skip"

\* C1: a fetched record goes past the severity gate iff the floor is `all`
\* or it has a score >= the floor's threshold; a record skipped at the gate
\* is one that does not pass, in particular every unscored record under a
\* floor other than `all`.
C1_SeverityGate ==
    \A h \in Handlers :
        LET f == handlers[h] IN
        /\ f.pc \in PastGatePcs => Passes(f.cve_details[1].cvss, f.global_threshold_str)
        /\ JustSkipped(h) => ~Passes(f.cve_details[1].cvss, f.global_threshold_str)

\* a record scored 8.5 went past floor `high`
C1_Witness ==
    \E h \in Handlers :
        /\ handlers[h].pc = "await_send_cve"
        /\ handlers[h].cve_details = Scored(85)
        /\ handlers[h].global_threshold_str = "high"

\* the message is one a user wrote in a guild channel, with some text, and
\* the cog has its store and its NVD client
PassesInitialChecks(h) ==
    LET m == handlers[h].message IN
    /\ Started(h)
    /\ ~m.author_bot /\ m.guild /\ m.content # <<>>
    /\ db /\ nvd_client

GuildEnabled == cve_guild_config # None /\ cve_guild_config[1].cve_monitoring_enabled

\* the invocation read the store (the read did not raise) and the guild is
\* enabled
ReadEnabledGuild(h) ==
    PassesInitialChecks(h) /\ handlers[h].outcome # "raised" /\ GuildEnabled

\* the message is treated as monitored: the invocation went on to scan it
Monitored(h) == handlers[h].outcome \in {"pending", "nocves", "summarized"}

\* the rows are exactly one row, of channel d, disabled
OnlyDisabledRow(rows, d) ==
    /\ \A r \in rows : r.channel_id = d /\ ~r.enabled
    /\ \E r \in rows : r.channel_id = d

\* C2 as stated: with no rows every destination is monitored; with a single
\* row (D, enabled=false), D is rejected while every other destination is
\* still monitored.
C2_OtherDestinationsStayMonitored ==
    \A h \in Handlers :
        ReadEnabledGuild(h) =>
            LET rows == get_all_cve_channel_configs_for_guild
                ch == handlers[h].message.channel IN
            /\ rows = {} => Monitored(h)
            /\ \A d \in Channels :
                 OnlyDisabledRow(rows, d) => (Monitored(h) <=> ch # d)

\* C2 as amended: with no rows every destination is monitored; with a single
\* row (D, enabled=false), D is rejected and so is every other destination,
\* since no destination has an enabled row.
C2_AllowList ==
    \A h \in Handlers :
        ReadEnabledGuild(h) =>
            LET rows == get_all_cve_channel_configs_for_guild IN
            /\ rows = {} => Monitored(h)
            /\ \A d \in Channels : OnlyDisabledRow(rows, d) => ~Monitored(h)

\* a message in c2 was rejected while the only row is (c1, disabled)
C2_Witness ==
    \E h \in Handlers :
        /\ ReadEnabledGuild(h)
        /\ OnlyDisabledRow(get_all_cve_channel_configs_for_guild, "c1")
        /\ handlers[h].message.channel = "c2"
        /\ handlers[h].outcome = "allowlist"

\* C3: when the guild has at least one row, an invocation goes past the
\* channel check (scans, fetches, sends) only if its channel has a row with
\* enabled=true; otherwise it makes no lookup and sends nothing.
C3_AllowListGate ==
    \A h \in Handlers :
        LET rows == get_all_cve_channel_configs_for_guild
            ch == handlers[h].message.channel
            allowed == \E r \in rows : r.channel_id = ch /\ r.enabled IN
        (Started(h) /\ rows # {}) =>
            /\ (trace[h] # <<>> \/ handlers[h].outcome \in {"nocves", "summarized"}
                  \/ handlers[h].pc # "done") => allowed
            /\ ~allowed => NoEffects(h) /\ Finished(h)

\* a notification was sent in a channel whose row is enabled while another
\* channel's row is disabled
C3_Witness ==
    \E h \in Handlers :
        /\ cve_channel_configs["c1"] # None /\ cve_channel_configs["c1"][1].enabled
        /\ cve_channel_configs["c2"] # None /\ ~cve_channel_configs["c2"][1].enabled
        /\ handlers[h].message.channel = "c1"
        /\ CountOps(trace[h], {"send_cve"}) > 0

\* the position of the first event of identifier c with one of the ops, or 0
FirstOp(q, ops, c) ==
    IF \E k \in DOMAIN q : q[k].op \in ops /\ q[k].cve = c
    THEN CHOOSE k \in DOMAIN q :
            /\ q[k].op \in ops /\ q[k].cve = c
            /\ \A j \in 1..(k - 1) : ~(q[j].op \in ops /\ q[j].cve = c)
    ELSE 0

\* C4: an exception while an identifier is processed is caught in the loop:
\* the invocation never ends by raising once its batch has begun, and when
\* it ends every identifier of the batch has been attempted (counted as a
\* lookup and fetched), those after a failed one included.
C4_PartialFailure ==
    \A h \in Handlers :
        LET f == handlers[h] IN
        /\ f.cves_to_process # <<>> => f.outcome # "raised"
        /\ (Finished(h) /\ f.cves_to_process # <<>>) =>
              /\ f.outcome = "summarized"
              /\ \A i \in DOMAIN f.cves_to_process :
                    /\ FirstOp(trace[h], {"inc_lookups"}, f.cves_to_process[i]) > 0
                    /\ FirstOp(trace[h], {"fetch"}, f.cves_to_process[i]) > 0

\* the first identifier raised and the second one was fetched after it
C4_Witness ==
    \E h \in Handlers :
        LET f == handlers[h] IN
        /\ Finished(h) /\ Len(f.cves_to_process) = 2
        /\ FirstOp(trace[h], {"raised"}, f.cves_to_process[1]) > 0
        /\ FirstOp(trace[h], {"fetch"}, f.cves_to_process[2])
              > FirstOp(trace[h], {"inc_errors"}, f.cves_to_process[1])

CaughtByOuter(h) == CountOps(trace[h], {"raised"})
CaughtByInner(h) == CountOps(trace[h], {"kev_raised"})
CaughtAnywhere(h) == CaughtByOuter(h) + CaughtByInner(h)

CountersUntouched ==
    (\A h \in Handlers : trace[h] = <<>>) =>
        /\ stats_cve_lookups = 0
        /\ stats_nvd_fallback_success = 0
        /\ stats_api_errors_nvd = 0

\* the configuration is unavailable to the invocation: the cog has no store,
\* a read of the store raised, the guild has no GuildPolicy, or its
\* monitoring is disabled
ConfigurationUnavailable(h) ==
    LET m == handlers[h].message IN
    /\ Started(h)
    /\ ~m.author_bot /\ m.guild
    /\ \/ ~db
       \/ handlers[h].outcome = "raised"
       \/ ~GuildEnabled

\* C8: policy resolution fails closed: with no GuildPolicy, with monitoring
\* disabled, or with the store unavailable, the invocation ends at once
\* having fetched nothing, sent nothing and counted nothing.
C8_FailsClosed ==
    /\ \A h \in Handlers : ConfigurationUnavailable(h) => NoEffects(h) /\ Finished(h)
    /\ CountersUntouched

\* a message that mentions two identifiers, in a guild whose monitoring is
\* disabled, ended without effect
C8_Witness ==
    \E h \in Handlers :
        /\ PassesInitialChecks(h) /\ handlers[h].outcome # "raised"
        /\ cve_guild_config # None /\ ~cve_guild_config[1].cve_monitoring_enabled
        /\ handlers[h].message.content = TwoCvesText
        /\ Finished(h) /\ NoEffects(h)

\* the message's channel misses the allow-list: the guild has rows and none
\* is an enabled row of the channel
AllowListMiss(h) ==
    LET rows == get_all_cve_channel_configs_for_guild IN
    /\ rows # {}
    /\ ~\E r \in rows : r.channel_id = handlers[h].message.channel /\ r.enabled

\* a guard of on_message rejects the message of invocation h
GuardRejects(h) ==
    LET m == handlers[h].message IN
    \/ m.author_bot
    \/ ~m.guild
    \/ m.content = <<>>
    \/ /\ PassesInitialChecks(h) /\ handlers[h].outcome # "raised"
       /\ \/ ~GuildEnabled
          \/ AllowListMiss(h)
          \/ FoundCvesSet(m.content) = {}

RejectOutcomes == {"bot", "dm", "nodeps", "empty", "disabled", "allowlist", "nocves"}

\* C9: a message rejected by a guard (bot author, direct message, empty
\* content, monitoring disabled, allow-list miss, no identifier) ends the
\* invocation silently: no fetch, no notification, no counter change, and
\* no exception to the caller.
C9_SilentReject ==
    /\ \A h \in Handlers :
         (Started(h) /\ GuardRejects(h)) =>
            /\ handlers[h].outcome \in RejectOutcomes
            /\ Finished(h) /\ NoEffects(h)
    /\ \A h \in Handlers : handlers[h].outcome \in RejectOutcomes => NoEffects(h)
    /\ CountersUntouched

\* a bot's message that mentions two identifiers was dropped without effect
C9_Witness ==
    \E h \in Handlers :
        /\ handlers[h].message.author_bot
        /\ handlers[h].message.content = TwoCvesText
        /\ GuildEnabled /\ db /\ nvd_client
        /\ Finished(h) /\ NoEffects(h)

\* C10: get_kev_entry is called for an identifier only right after its
\* fetch returned a record, the success was counted and the record passed
\* the gate; a gated record, a missing record and a failed fetch never lead
\* to a KEV lookup.
C10_GateBeforeEnrichment ==
    \A h \in Handlers :
        LET q == trace[h]
            level == handlers[h].global_threshold_str IN
        /\ \A k \in DOMAIN q :
             q[k].op = "kev_lookup" =>
                /\ k >= 3
                /\ q[k - 1] = Event("inc_success", q[k].cve)
                /\ q[k - 2] = Event("fetched", q[k].cve)
                /\ nvd_records[q[k].cve] # None
                /\ Passes(nvd_records[q[k].cve][1].cvss, level)
        /\ \A k \in DOMAIN q :
             q[k].op \in {"gate_skip", "not_found"} =>
                FirstOp(q, {"kev_lookup"}, q[k].cve) = 0
        /\ \A k \in DOMAIN q :
             (q[k].op = "raised" /\ q[k - 1].op = "fetch") =>
                FirstOp(q, {"kev_lookup"}, q[k].cve) = 0

\* in one batch a record was gated and another was looked up in the KEV
\* catalogue
C10_Witness ==
    \E h \in Handlers :
        /\ CountOps(trace[h], {"gate_skip"}) > 0
        /\ CountOps(trace[h], {"kev_lookup"}) > 0

\* the identifiers on_message attempts for the message of invocation h: the
\* distinct identifiers of the text, at most MAX_CVES_PER_MESSAGE of them
Attempted(h) ==
    Min(Cardinality(FoundCvesSet(handlers[h].message.content)), MAX_CVES_PER_MESSAGE)

LookupsOf(h) == IF handlers[h].outcome = "summarized" THEN Attempted(h) ELSE 0
FetchedOf(h) == CountOps(trace[h], {"fetched"})

\* C6: when on_message has finished a message that passed every guard, the
\* lookup counter has grown by min(distinct identifiers, 5) and the success
\* counter by the number of fetches that returned a record, whether or not
\* the record passed the severity gate or was sent.
C6_CounterAccounting ==
    Quiescent =>
        /\ stats_cve_lookups = SumOver(LookupsOf, Handlers)
        /\ stats_nvd_fallback_success = SumOver(FetchedOf, Handlers)

\* a message with more than five identifiers is finished: five were looked
\* up, and of the records fetched one was gated and one was sent
C6_Witness ==
    \E h \in Handlers :
        /\ Finished(h) /\ handlers[h].outcome = "summarized"
        /\ Cardinality(handlers[h].found_cves_set) > MAX_CVES_PER_MESSAGE
        /\ stats_cve_lookups = MAX_CVES_PER_MESSAGE
        /\ CountOps(trace[h], {"gate_skip"}) > 0
        /\ CountOps(trace[h], {"send_cve"}) > 0
        /\ stats_nvd_fallback_success > handlers[h].processed_count

IncrementPcs == {"inc_lookups", "inc_success", "inc_errors"}

\* the invocations that are between taking the stats lock and the increment
LockHolders ==
    Cardinality({h \in Handlers : handlers[h].pc \in IncrementPcs})
        + (IF lookup_cmd.pc \in IncrementPcs THEN 1 ELSE 0)

\* the increments of a counter the invocations have issued so far
Issued(op) ==
    LET OfHandler(h) == CountOps(trace[h], {op})
    IN SumOver(OfHandler, Handlers) + CountOps(lookup_cmd.trace, {op})

\* C7: under every interleaving of on_message invocations and a /cve lookup
\* command, an increment is made only by the one invocation that holds the
\* stats lock, and no increment is lost: each counter equals the number of
\* increments the invocations have issued.
C7_AtomicIncrements ==
    /\ LockHolders <= 1
    /\ stats_lock <=> LockHolders = 1
    /\ stats_cve_lookups = Issued("inc_lookups")
    /\ stats_nvd_fallback_success = Issued("inc_success")
    /\ stats_api_errors_nvd = Issued("inc_errors")

\* an invocation holds the lock for its increment while another on_message
\* invocation and the command wait for it
C7_Witness ==
    /\ \E h, g \in Handlers :
         /\ handlers[h].pc \in IncrementPcs
         /\ handlers[g].pc \in {"lock_lookups", "lock_success", "lock_errors"}
    /\ lookup_cmd.pc \in {"lock_lookups", "lock_success", "lock_errors"}
    /\ stats_cve_lookups >= 1

SendOps == {"send_cve", "send_kev"}

\* C11: when get_kev_entry raises for an identifier, the identifier is
\* treated as not exploited: the next thing the invocation does is send its
\* vulnerability notification (unless that step fails itself), and no
\* exploitation notification is ever sent for it.
C11_EnrichmentFailureDegrades ==
    \A h \in Handlers :
        LET q == trace[h] IN
        \A k \in DOMAIN q :
            q[k].op = "kev_raised" =>
                /\ FirstOp(q, {"send_kev"}, q[k].cve) = 0
                /\ k < Len(q) => /\ q[k + 1].cve = q[k].cve
                                 /\ q[k + 1].op \in {"send_cve", "raised"}
                /\ k = Len(q) => /\ handlers[h].pc = "await_send_cve"
                                 /\ ~handlers[h].is_kev

\* the KEV lookup of an identifier of the catalogue raised; its CVE
\* notification was sent and the invocation ended
C11_Witness ==
    \E h \in Handlers :
        /\ Finished(h)
        /\ FirstOp(trace[h], {"kev_raised"}, Cve1) > 0
        /\ Cve1 \in kev_catalog
        /\ FirstOp(trace[h], {"send_cve"}, Cve1) > FirstOp(trace[h], {"kev_raised"}, Cve1)

\* C12: an exploitation notification for an identifier is sent only after
\* the vulnerability notification of the same identifier, with nothing of
\* another identifier in between, and never for an identifier whose
\* vulnerability notification was not sent.
C12_EmissionOrder ==
    \A h \in Handlers :
        LET q == trace[h] IN
        \A k \in DOMAIN q :
            q[k].op = "send_kev" =>
                LET j == FirstOp(q, {"send_cve"}, q[k].cve) IN
                /\ j > 0 /\ j < k
                /\ \A i \in j..k : q[i].cve = q[k].cve
                /\ \A i \in DOMAIN q :
                     (q[i].op \in SendOps /\ q[i].cve # q[k].cve) => (i < j \/ i > k)

\* both notifications of the first identifier were sent, then the
\* notification of the second one
C12_Witness ==
    \E h \in Handlers :
        LET q == trace[h] IN
        /\ FirstOp(q, {"send_cve"}, Cve1) > 0
        /\ FirstOp(q, {"send_kev"}, Cve1) > FirstOp(q, {"send_cve"}, Cve1)
        /\ FirstOp(q, {"send_cve"}, Cve2) > FirstOp(q, {"send_kev"}, Cve1)

\* C13: after every notification an invocation has sent, its next step is
\* the delay: the event that follows a send in its trace is the sleep, so
\* no fetch, no counter increment and no other send comes before the delay
\* has completed.
C13_InterSendDelay ==
    \A h \in Handlers :
        LET q == trace[h] IN
        \A k \in DOMAIN q :
            q[k].op \in SendOps =>
                /\ k < Len(q) => q[k + 1].op = "sleep"
                /\ k = Len(q) => handlers[h].pc \in {"sleep_cve", "sleep_kev"}

\* a batch sent both notifications of one identifier and a notification of
\* a later one, and the truncation notice after them
C13_Witness ==
    \E h \in Handlers :
        LET q == trace[h] IN
        /\ CountOps(q, {"send_kev"}) > 0
        /\ CountOps(q, {"send_cve"}) > 1
        /\ CountOps(q, {"notice"}) > 0

\* identifier c is written in the text, in any letter case
Mentions(content, c) ==
    \E i \in 1..(Len(content) - Len(c) + 1) :
        /\ UpperChar(content[i]) = c[1]
        /\ Upper(SubSeq(content, i, i + Len(c) - 1)) = c

\* the distinct identifiers a text of the model mentions
MentionedCves(content) == {c \in AllCves : Mentions(content, c)}

\* the positions of a trace whose op is one of ops
OpsAt(q, ops) == {k \in DOMAIN q : q[k].op \in ops}

\* the identifiers an invocation has attempted
AttemptedCves(h) == {trace[h][k].cve : k \in OpsAt(trace[h], {"inc_lookups"})}

NoticeOps == {"notice", "notice_failed"}

\* the message of h passed every guard and its processing is over
Summarized(h) == Finished(h) /\ handlers[h].outcome = "summarized"

\* C14: of the n distinct identifiers of a message exactly min(n, 5) are
\* attempted, each once and each one of the n; with n = 7, five are
\* attempted and the truncation notice says 7 found, 5 shown.
C14_Cap ==
    \A h \in Handlers :
        LET q == trace[h]
            distinct == MentionedCves(handlers[h].message.content)
            n == Cardinality(distinct) IN
        /\ AttemptedCves(h) \subseteq distinct
        /\ Cardinality(AttemptedCves(h)) <= MAX_CVES_PER_MESSAGE
        /\ Summarized(h) =>
              /\ Cardinality(AttemptedCves(h)) = Min(n, 5)
              /\ CountOps(q, {"inc_lookups"}) = Min(n, 5)
              /\ \A k \in OpsAt(q, NoticeOps) : q[k].found = n /\ q[k].shown = 5
              /\ n = 7 => /\ Cardinality(AttemptedCves(h)) = 5
                          /\ \E k \in OpsAt(q, NoticeOps) : q[k].found = 7 /\ q[k].shown = 5

\* a message with seven identifiers ended: five lookups, and the notice
\* "7 found, 5 shown" delivered
C14_Witness ==
    \E h \in Handlers :
        /\ Summarized(h)
        /\ handlers[h].message.content = CvesText(7)
        /\ stats_cve_lookups = 5
        /\ \E k \in OpsAt(trace[h], {"notice"}) :
              trace[h][k].found = 7 /\ trace[h][k].shown = 5

\* C15: the truncation notice is sent once when the message has more than
\* five distinct identifiers and never otherwise; it is the last thing the
\* invocation does, after every identifier of the batch has been attempted,
\* whatever failed or was gated, and it reports the distinct count and the
\* cap.
C15_TruncationNotice ==
    \A h \in Handlers :
        LET q == trace[h]
            n == Cardinality(MentionedCves(handlers[h].message.content))
            notices == OpsAt(q, NoticeOps) IN
        /\ notices # {} => Summarized(h)
        /\ Summarized(h) =>
              /\ Cardinality(notices) = (IF n > 5 THEN 1 ELSE 0)
              /\ \A k \in notices :
                    /\ k = Len(q)
                    /\ CountOps(q, {"fetch"}) = 5
                    /\ q[k].found = n /\ q[k].shown = MAX_CVES_PER_MESSAGE

\* the notice closed a batch in which one identifier failed and one was gated
C15_Witness ==
    \E h \in Handlers :
        /\ Summarized(h)
        /\ CountOps(trace[h], {"inc_errors"}) > 0
        /\ CountOps(trace[h], {"gate_skip"}) > 0
        /\ Last(trace[h]).op = "notice"

\* C16: an identifier is attempted at most once per message however often
\* and in whatever case it is mentioned: one identifier mentioned five times
\* is one lookup, and the notice reports the number of distinct identifiers,
\* neither the number of mentions nor the cap.
C16_Deduplication ==
    \A h \in Handlers :
        LET q == trace[h]
            content == handlers[h].message.content IN
        /\ \A c \in AllCves :
              Cardinality({k \in OpsAt(q, {"inc_lookups", "fetch"}) : q[k].cve = c})
                 <= 2 * (IF Mentions(content, c) THEN 1 ELSE 0)
        /\ \A j, k \in OpsAt(q, {"inc_lookups"}) : q[j].cve = q[k].cve => j = k
        /\ (Summarized(h) /\ content = FiveMentionsText) => stats_cve_lookups = 1
        /\ \A k \in OpsAt(q, NoticeOps) :
              q[k].found = Cardinality(MentionedCves(content))
        /\ (Summarized(h) /\ content = RepeatedLongText) =>
              \E k \in OpsAt(q, NoticeOps) : q[k].found = 6

\* the text with five mentions of one identifier ended with one lookup
C16_Witness ==
    \E h \in Handlers :
        /\ Summarized(h)
        /\ handlers[h].message.content = FiveMentionsText
        /\ Len(CVE_SCAN_REGEX(FiveMentionsText)) = 5
        /\ stats_cve_lookups = 1

RECURSIVE JoinCves(_)
\* the text that lists the identifiers of a sequence, one per line
JoinCves(cves) ==
    IF cves = <<>> THEN <<>> ELSE Head(cves) \o <<"\n">> \o JoinCves(Tail(cves))

\* the invocation has scanned its message
Scanned(h) == Started(h) /\ handlers[h].outcome \in {"pending", "nocves", "summarized"}

\* C17: the scan returns upper-cased identifiers of valid format, finds the
\* same set in the text and in the upper-cased text (so mentions that differ
\* in case are one identifier), and finds the same set again in the text
\* made of its own output.
C17_ScanIdempotent ==
    \A h \in Handlers :
        Scanned(h) =>
            LET found == handlers[h].found_cves_set
                content == handlers[h].message.content IN
            /\ \A c \in found : Upper(c) = c /\ CVE_VALIDATE_REGEX(c) /\ "c" \notin Range(c)
            /\ found = FoundCvesSet(Upper(content))
            /\ content = Cve1Lower \o Cve1 => found = {Cve1}
            /\ FoundCvesSet(JoinCves(ListOfSet(found, hash_order))) = found

\* a text with a lower-case and a mixed-case mention gave two upper-case
\* identifiers
C17_Witness ==
    \E h \in Handlers :
        /\ Scanned(h)
        /\ handlers[h].message.content = Cve1Lower \o MixedCve2 \o Cve1
        /\ handlers[h].found_cves_set = {Cve1, Cve2}

\* the events of a trace about identifier c with one of the ops
OpsOf(q, ops, c) == {k \in OpsAt(q, ops) : q[k].cve = c}

\* the guild and the catalogues of the end-to-end scenarios
ScenarioGuild ==
    /\ cve_guild_config = Some(GuildConfig(TRUE, FALSE, "high"))
    /\ cve_channel_configs = NoRows
    /\ db /\ nvd_client

\* C18: guild {enabled, standard mode, floor high}, no channel rows, a
\* message with one identifier whose record scores 8.0 and is not in the KEV
\* catalogue, nothing failing: one notification is sent, the CVE embed in
\* standard mode, no KEV embed, and the counters are lookups 1, successes 1,
\* errors 0.
C18_EndToEndPass ==
    \A h \in Handlers :
        LET q == trace[h] IN
        ( /\ ScenarioGuild
          /\ Summarized(h)
          /\ handlers[h].message.content = OneCveText
          /\ nvd_records[Cve1] = Scored(80) /\ Cve1 \notin kev_catalog
          /\ OpsAt(q, {"raised"}) = {} ) =>
            /\ Cardinality(OpsAt(q, SendOps \cup NoticeOps)) = 1
            /\ \E k \in OpsAt(q, {"send_cve"}) : q[k].cve = Cve1 /\ ~q[k].verbose
            /\ OpsAt(q, {"send_kev"}) = {}
            /\ stats_cve_lookups = 1
            /\ stats_nvd_fallback_success = 1
            /\ stats_api_errors_nvd = 0

\* the scenario ran to its end with the KEV catalogue consulted
C18_Witness ==
    \E h \in Handlers :
        /\ ScenarioGuild /\ Summarized(h)
        /\ handlers[h].message.content = OneCveText
        /\ nvd_records[Cve1] = Scored(80) /\ Cve1 \notin kev_catalog
        /\ OpsOf(trace[h], {"kev_none"}, Cve1) # {}
        /\ OpsOf(trace[h], {"send_cve"}, Cve1) # {}
        /\ stats_cve_lookups = 1

\* the invocation is through with identifier c
DoneWith(h, c) ==
    /\ OpsOf(trace[h], {"fetch"}, c) # {}
    /\ Finished(h) \/ CurrentCve(handlers[h]) # c

\* C19: an identifier whose fetch returned a record that fails the floor
\* gets no notification, one lookup count, one success count and no error
\* count; in the scenario (score 3.0 under floor high) the counters end at
\* lookups 1, successes 1, errors 0 with nothing sent.
C19_EndToEndGated ==
    \A h \in Handlers :
        LET q == trace[h]
            level == handlers[h].global_threshold_str IN
        /\ \A c \in AllCves :
             ( /\ DoneWith(h, c)
               /\ OpsOf(q, {"fetched"}, c) # {}
               /\ ~Passes(nvd_records[c][1].cvss, level) ) =>
                 /\ OpsOf(q, SendOps, c) = {}
                 /\ Cardinality(OpsOf(q, {"inc_lookups"}, c)) = 1
                 /\ Cardinality(OpsOf(q, {"inc_success"}, c)) = 1
                 /\ OpsOf(q, {"inc_errors", "kev_lookup"}, c) = {}
        /\ ( /\ ScenarioGuild /\ Summarized(h)
             /\ handlers[h].message.content = SecondCveText
             /\ nvd_records[Cve2] = Scored(30)
             /\ OpsAt(q, {"raised"}) = {} ) =>
               /\ OpsAt(q, SendOps \cup NoticeOps) = {}
               /\ stats_cve_lookups = 1
               /\ stats_nvd_fallback_success = 1
               /\ stats_api_errors_nvd = 0

\* the record scored 3.0 was fetched, counted and gated under floor high
C19_Witness ==
    \E h \in Handlers :
        /\ ScenarioGuild /\ Summarized(h)
        /\ handlers[h].message.content = SecondCveText
        /\ nvd_records[Cve2] = Scored(30)
        /\ OpsOf(trace[h], {"gate_skip"}, Cve2) # {}
        /\ stats_nvd_fallback_success = 1

\* the verbosity the specification resolves for a destination: its override
\* when a ChannelPolicy with a non-null override exists, else the guild's
\* default
ResolvedVerbosity(channel_id) ==
    LET row == cve_channel_configs[channel_id] IN
    IF row # None /\ row[1].verbose_mode # None THEN row[1].verbose_mode[1]
    ELSE cve_guild_config[1].verbose_mode

\* C20: every notification is built with the destination's verbosity
\* override when there is a non-null one and with the guild's default
\* otherwise, which is also what the verbosity status reports for the
\* destination; the KEV embed of an identifier uses the value its CVE embed
\* used.
C20_VerbosityResolution ==
    \A h \in Handlers :
        LET q == trace[h]
            ch == handlers[h].message.channel IN
        /\ \A k \in OpsAt(q, SendOps) :
              /\ q[k].verbose = ResolvedVerbosity(ch)
              /\ q[k].verbose = VerboseChannelStatus(ch).verbose
        /\ \A k \in OpsAt(q, {"send_kev"}) :
              \A j \in OpsOf(q, {"send_cve"}, q[k].cve) : q[j].verbose = q[k].verbose

\* with the guild in standard mode and the channel's override set to
\* verbose, both embeds of an identifier were sent in verbose mode
C20_Witness ==
    \E h \in Handlers :
        LET q == trace[h]
            ch == handlers[h].message.channel IN
        /\ cve_guild_config # None /\ ~cve_guild_config[1].verbose_mode
        /\ cve_channel_configs[ch] # None
        /\ cve_channel_configs[ch][1].verbose_mode = Some(TRUE)
        /\ VerboseChannelStatus(ch).status = "override"
        /\ \E k \in OpsOf(q, {"send_cve"}, Cve1) : q[k].verbose
        /\ \E k \in OpsOf(q, {"send_kev"}, Cve1) : q[k].verbose

\* C21: when get_cve_details returns no record for an identifier, nothing
\* is sent for it, neither the success nor the error counter is touched for
\* it, it counts as one lookup, and the invocation goes straight on to the
\* next identifier (or to the end of the batch).
C21_NotFoundIsNotAnError ==
    \A h \in Handlers :
        LET q == trace[h]
            f == handlers[h] IN
        \A k \in OpsAt(q, {"not_found"}) :
            LET c == q[k].cve IN
            /\ OpsOf(q, SendOps \cup {"inc_success", "inc_errors", "kev_lookup"}, c) = {}
            /\ Cardinality(OpsOf(q, {"inc_lookups"}, c)) = 1
            /\ k < Len(q) => \/ q[k + 1].op \in NoticeOps
                             \/ q[k + 1].op = "inc_lookups" /\ q[k + 1].cve # c
            /\ k = Len(q) => \/ f.pc \in {"done", "await_notice"}
                             \/ /\ f.pc \in {"lock_lookups", "inc_lookups"}
                                /\ CurrentCve(f) # c

\* the first identifier was not found and the second one was notified,
\* with no error counted
C21_Witness ==
    \E h \in Handlers :
        LET q == trace[h] IN
        /\ Finished(h)
        /\ OpsAt(q, {"not_found"}) # {}
        /\ \E k \in OpsAt(q, {"not_found"}), j \in OpsAt(q, {"send_cve"}) :
              k < j /\ q[k].cve # q[j].cve
        /\ stats_api_errors_nvd = 0 /\ stats_cve_lookups = 2
        /\ stats_nvd_fallback_success = 1

(***************************************************************************)
(* C22: first-touch auto-creation by the policy commands.                   *)
(***************************************************************************)
WritePathOps ==
    {"channels_add", "channels_enable_global", "channels_disable_global",
     "threshold_set", "threshold_reset", "verbose_enable_global",
     "verbose_disable_global", "verbose_set", "verbose_unset", "verbose_setall"}

\* the last command was a write on a guild without a row and replied success
FirstTouch(ops) ==
    /\ policy_cmd.op \in ops
    /\ ~policy_cmd.had_config
    /\ policy_cmd.result = "ok"

\* the store holds what the last command asked for
ReflectsChange ==
    LET op == policy_cmd.op
        row == cve_channel_configs[policy_cmd.channel] IN
    /\ op \in {"channels_add", "channels_enable_global"} =>
           cve_guild_config[1].cve_monitoring_enabled
    /\ op = "channels_add" => row # None /\ row[1].enabled
    /\ op = "channels_disable_global" => ~cve_guild_config[1].cve_monitoring_enabled
    /\ op \in {"threshold_set", "threshold_reset"} =>
           cve_guild_config[1].cve_severity_threshold = policy_cmd.level
    /\ op \in {"verbose_enable_global", "verbose_disable_global"} =>
           cve_guild_config[1].verbose_mode = policy_cmd.verbosity
    /\ op = "verbose_set" => row # None /\ row[1].verbose_mode = Some(policy_cmd.verbosity)
    /\ op = "verbose_unset" => (row = None \/ row[1].verbose_mode = None)
    /\ op = "verbose_setall" =>
           \A c \in Channels :
               cve_channel_configs[c] # None =>
                   cve_channel_configs[c][1].verbose_mode = Some(policy_cmd.verbosity)

\* C22 — after a write-path policy command (channels add, global enable or
\* disable, threshold set or reset, global verbosity enable or disable,
\* channel verbosity set, unset or setall) on a guild without a GuildPolicy
\* row has replied success, the guild has a row and the store reflects the
\* requested change.
C22_FirstTouchAutoCreation ==
    FirstTouch(WritePathOps) => cve_guild_config # None /\ ReflectsChange

(***************************************************************************)
(* C23: the identifiers of one message are processed one after the other.  *)
(***************************************************************************)
\* the events of a trace that are about an identifier
CveOps(q) == {k \in DOMAIN q : q[k].op \notin NoticeOps}

\* the events of identifier c
Block(q, c) == {k \in CveOps(q) : q[k].cve = c}

Max(S) == CHOOSE x \in S : \A y \in S : y <= x

\* identifier c is the one the invocation is working on
InProgress(h, c) ==
    /\ handlers[h].pc \notin {"idle", "done", "await_notice"}
    /\ CurrentCve(handlers[h]) = c

\* identifier c has reached its end: not found, gated, failed and counted,
\* or emitted with the delay after its last notification elapsed
Ended(q, c) ==
    LET last == Max(Block(q, c)) IN
    \/ q[last].op \in {"not_found", "gate_skip", "inc_errors"}
    \/ /\ q[last].op = "sleep"
       /\ \/ q[last - 1].op = "send_kev"
          \/ q[last - 1].op = "send_cve" /\ OpsOf(q, {"kev_entry"}, c) = {}

\* C23 — within one invocation the events of an identifier are consecutive,
\* and every identifier with events other than the one in progress has
\* reached its end, so the fetch of an identifier starts only after the
\* previous identifier has ended.
C23_SequentialBatch ==
    \A h \in Handlers :
        LET q == trace[h] IN
        \A c \in {q[k].cve : k \in CveOps(q)} :
            /\ \A i \in Block(q, c), j \in Block(q, c), k \in CveOps(q) :
                   (i < k /\ k < j) => q[k].cve = c
            /\ InProgress(h, c) \/ Ended(q, c)
            /\ InProgress(h, c) => \A k \in CveOps(q) : k > Max(Block(q, c)) => q[k].cve = c

\* one invocation has ended its first identifier and is at the second one
\* while the invocation of the other message is in the middle of its own
C23_Witness ==
    \E h \in Handlers, g \in Handlers :
        /\ h # g
        /\ InProgress(h, Cve2) /\ handlers[h].pc = "await_send_cve"
        /\ OpsOf(trace[h], {"send_kev"}, Cve1) # {}
        /\ InProgress(g, Cve2) /\ handlers[g].pc = "sleep_cve"
        /\ Len(handlers[g].cves_to_process) = 1

(***************************************************************************)
(* C24: a batch that has begun runs to completion.                         *)
(***************************************************************************)
\* the invocation has passed its checks and is in the loop over its batch
BatchBegun(h) == handlers[h].pc \notin {"idle", "done"}

\* the invocation has ended summarized and has attempted every identifier
\* of its capped batch
Completed(h) ==
    /\ Summarized(h)
    /\ AttemptedCves(h) = Range(handlers[h].cves_to_process)

\* C24 — once an invocation has begun its batch, and every call it awaits
\* returns or raises, it eventually ends summarized having attempted every
\* identifier of the capped batch, whatever fails for one identifier and
\* whatever policy command runs meanwhile.
C24_RunToCompletion == \A h \in Handlers : BatchBegun(h) ~> Completed(h)

\* a batch completed although one identifier failed and the guild's
\* monitoring was disabled and the channel removed after the batch began
C24_Witness ==
    \E h \in Handlers :
        /\ Completed(h)
        /\ OpsAt(trace[h], {"inc_errors"}) # {}
        /\ ~cve_guild_config[1].cve_monitoring_enabled
        /\ cve_channel_configs["c1"] = None

(***************************************************************************)
(* C25..C30: the recent-CVE query.                                         *)
(***************************************************************************)
\* get_recent_cves has returned (it did not raise)
FetchReturned ==
    /\ latest_cmd.steps # <<>>
    /\ latest_cmd.pc \notin {"idle", "await_defer", "await_recent"}
    /\ latest_cmd.failed_at # "fetch_recent"

\* no send of the invocation has failed
SendsWentThrough == latest_cmd.failed_at # "followup" /\ latest_cmd.outcome # "raised"

\* the invocation has replied with a response of this kind
Replied(kind) == latest_cmd.pc = "done" /\ latest_cmd.outcome = kind

\* C25 — a window fetch that returns nothing ends the query with the
\* hard-failure reply, one that returns an empty window with the "no data"
\* reply, which is not the failure reply; in both cases the fetch is the
\* only step of the query: no filter, no catalogue fetch, no sort.
C25_FetchOutcomes ==
    LET c == latest_cmd IN
    (FetchReturned /\ c.recent \in {None, Some(<<>>)}) =>
        /\ c.steps = <<"fetch_recent">>
        /\ c.filtered = <<>> /\ c.results = <<>>
        /\ SendsWentThrough =>
              /\ c.response.kind = (IF c.recent = None THEN "failed" ELSE "no_data")
              /\ c.pc = "done" => c.outcome = c.response.kind

\* a query with a severity and an in_kev filter got nothing from the fetch
\* and replied with the failure
C25_Witness ==
    /\ Replied("failed")
    /\ latest_cmd.recent = None
    /\ latest_cmd.severity # None /\ latest_cmd.in_kev # None

\* the fetch returned a window with records in it
WindowFetched ==
    FetchReturned /\ latest_cmd.recent # None /\ latest_cmd.recent # Some(<<>>)

\* the query has run its filters and its sort
SortDone == \E k \in DOMAIN latest_cmd.steps : latest_cmd.steps[k] = "sort"

\* the score of a record of the window is there and is at least the floor
ScoreAtLeast(cve, level) ==
    cve.cvss \notin {Absent, Null} /\ cve.cvss[1][1] >= FloorOf(level)

\* C26 — with a severity label among critical, high, medium and low, the
\* query keeps exactly the fetched records whose score is present and at
\* least the label's floor; a record whose score is absent or null is
\* dropped, and the query does not fail on it.
C26_SeverityFilter ==
    LET c == latest_cmd IN
    (WindowFetched /\ c.severity # None) =>
        /\ c.failed_at # "filter_severity"
        /\ (SortDone /\ c.vendor = None /\ c.product = None /\ c.in_kev = None) =>
              c.before_sort =
                  SelectSeq(c.recent[1], LAMBDA cve : ScoreAtLeast(cve, c.severity[1]))

\* the day a record counts as published on: the day of its timestamp, or
\* the epoch when the timestamp is missing or is no date
PublishedAt(cve) ==
    IF cve.published \in {Absent, Null} \/ cve.published[1][1].form = "garbage" THEN 0
    ELSE cve.published[1][1].t

\* C27 — once the query has sorted, its records are in descending order of
\* publication, a record with a missing or unparsable timestamp counting as
\* published at the epoch, for every mix of well-formed, missing and
\* unparsable timestamps; and the sort key raises for no record.
C27_SortOrder ==
    LET c == latest_cmd IN
    SortDone =>
        /\ \A i \in DOMAIN c.before_sort : ~get_sort_key(c.before_sort[i]).raised
        /\ \A i \in DOMAIN c.filtered, j \in DOMAIN c.filtered :
               i < j => PublishedAt(c.filtered[i]) >= PublishedAt(c.filtered[j])

\* how many times record r occurs in a list
Occurrences(cves, r) == Cardinality({i \in DOMAIN cves : cves[i] = r})

\* two lists hold the same records, each as many times
SameMultiset(a, b) ==
    /\ Len(a) = Len(b)
    /\ \A r \in Range(a) \cup Range(b) : Occurrences(a, r) = Occurrences(b, r)

\* the first n records of a list, or all of it
FirstN(cves, n) == SubSeq(cves, 1, Min(n, Len(cves)))

\* C28 — when the sort raises, the query does not fail: it goes on with
\* the same filtered records in some order, cuts them to the count and,
\* unless sending the reply fails, replies with a normal result.
C28_SortFailureDegrades ==
    LET c == latest_cmd IN
    c.sort_raised =>
        /\ c.failed_at # "sort"
        /\ SameMultiset(c.filtered, c.before_sort)
        /\ c.results = FirstN(c.filtered, c.count)
        /\ SendsWentThrough =>
              /\ c.response.kind = "results"
              /\ c.response.shown = Len(c.results)
              /\ c.pc = "done" => c.outcome = "results"

\* a query whose sort raised over three records replied with the first two
C28_Witness ==
    /\ Replied("results")
    /\ latest_cmd.sort_raised
    /\ Len(latest_cmd.before_sort) = 3
    /\ latest_cmd.response.shown = 2

\* the query has cut its list to the count
TruncateDone == \E k \in DOMAIN latest_cmd.steps : latest_cmd.steps[k] = "truncate"

InCatalogue(cve) == \E k \in kev_catalog : k = cve.id

\* C30 — with in_kev true the query keeps exactly the records whose
\* identifier is in the full KEV catalogue, with in_kev false exactly those
\* whose identifier is not; without in_kev the catalogue is not fetched
\* and the filter drops nothing; a catalogue fetch that returns nothing
\* counts as an empty catalogue.
C30_KevFilter ==
    LET c == latest_cmd
        before_kev == Filtered(c, c.recent[1])
        fetched == \E k \in DOMAIN c.steps : c.steps[k] = "fetch_catalog" IN
    /\ c.in_kev = None => ~fetched
    /\ (SortDone /\ c.in_kev = None) => c.before_sort = before_kev
    /\ (SortDone /\ c.in_kev # None) =>
          /\ fetched
          /\ c.kev_catalog_cves \in {kev_catalog, {}}
          /\ c.kev_catalog_cves = kev_catalog =>
                c.before_sort =
                    SelectSeq(before_kev, LAMBDA cve : InCatalogue(cve) = c.in_kev[1])
          /\ c.kev_catalog_cves = {} =>
                c.before_sort = (IF c.in_kev[1] THEN <<>> ELSE before_kev)

\* a query with in_kev true kept the one record of two that the catalogue
\* lists, the other differing from a catalogue entry in letter case only
C30_Witness ==
    /\ Replied("results")
    /\ latest_cmd.in_kev = Some(TRUE)
    /\ latest_cmd.kev_catalog_cves = kev_catalog
    /\ Len(latest_cmd.recent[1]) = 2
    /\ latest_cmd.recent[1][1].id = Cve1Lower
    /\ Len(latest_cmd.before_sort) = 1
    /\ latest_cmd.before_sort[1].id = Cve1

(***************************************************************************)
(* Policy commands running while a message is handled: a guild that has no *)
(* row yet or one monitored in all its channels at floor `medium`, one     *)
(* message with two identifiers scored 9.5 and 5.0, and the commands that  *)
(* change what the handler reads (the floor, the monitoring flag, the      *)
(* channel rows and the verbosity).                                        *)
(***************************************************************************)
MixedMessages == {Message(FALSE, TRUE, "c1", TwoCvesText)}

InitMixed ==
    /\ InitBot
    /\ messages_left = 1
    /\ faults_left = 1
    /\ cve_guild_config \in {None, Some(GuildConfig(TRUE, FALSE, "medium"))}
    /\ cve_channel_configs = NoRows
    /\ db = TRUE /\ nvd_client = TRUE /\ cisa_kev_client = TRUE
    /\ nvd_records = NvdWith(Scored(95), Scored(50))
    /\ kev_catalog = {Cve1}
    /\ hash_order = Ascending

NextMixed ==
    \/ \E h \in Handlers :
        \/ \E message \in MixedMessages : OnMessage(h, message)
        \/ LoopStep(h)
    \/ \E raise_at \in RaiseAt :
        \/ \E level \in SeverityLevels : threshold_set_command(level, raise_at)
        \/ threshold_reset_command(raise_at)
        \/ channels_add_command("c1", raise_at)
        \/ channels_disable_global_command(raise_at)
        \/ verbose_enable_global_command(raise_at)
        \/ \E channel \in Channels : verbose_channel_set_command(channel, TRUE, raise_at)

SpecMixed == InitMixed /\ [][NextMixed]_vars

\* the label a handler took from the guild's row it read
FloorLabel(h) == handlers[h].guild_config[1].cve_severity_threshold

\* the handler read the guild's row and went on to the scan
ReadFloor(h) == Started(h) /\ handlers[h].guild_config # None /\ Monitored(h)

\* C31: whatever policy commands have run (a first touch that created the
\* default row, /cve threshold set, /cve threshold reset), the severity
\* threshold stored in an existing guild row is one of critical, high,
\* medium, low, all; and the numeric floor on_message takes from the row it
\* read is the table value of that label: 9.0, 7.0, 4.0, 0.1, 0.0.
C31_SeverityFloor ==
    /\ cve_guild_config # None =>
          cve_guild_config[1].cve_severity_threshold \in SeverityLevels
    /\ \A h \in Handlers : ReadFloor(h) =>
          /\ handlers[h].global_threshold_str = FloorLabel(h)
          /\ FloorLabel(h) \in SeverityLevels
          /\ MinScoreThreshold(handlers[h].global_threshold_str) = FloorOf(FloorLabel(h))

\* /cve threshold set stored `critical` in the guild's row, and
\* a handler then read that label and is processing the batch under it
C31_Witness ==
    /\ policy_cmd.op = "threshold_set"
    /\ policy_cmd.result = "ok"
    /\ policy_cmd.level = "critical"
    /\ cve_guild_config # None
    /\ cve_guild_config[1].cve_severity_threshold = "critical"
    /\ \E h \in Handlers :
          /\ ReadFloor(h)
          /\ handlers[h].global_threshold_str = "critical"
          /\ handlers[h].pc \in PastGatePcs

\* the three counters, in the order lookups, successes, errors
Counters == <<stats_cve_lookups, stats_nvd_fallback_success, stats_api_errors_nvd>>

\* C32: however message handlers and /cve lookup commands interleave, no
\* step decreases the lookup, success or error counter, and a step that
\* changes a counter adds exactly one to it.
C32_CountersMonotonic ==
    [][\A k \in 1..3 : Counters[k]' \in {Counters[k], Counters[k] + 1}]_vars

\* two handlers and a /cve lookup command have counted: three lookups, at
\* least one success and one error
C32_Witness ==
    /\ stats_cve_lookups = MaxHandlers + 1
    /\ stats_nvd_fallback_success >= 1
    /\ stats_api_errors_nvd >= 1
    /\ lookup_cmd.pc # "idle"
    /\ \A h \in Handlers : Started(h)

\* C36: in every reachable state, however handlers and /cve lookup commands
\* interleave, the success counter and the error counter are each at most
\* the lookup counter: an invocation increments the lookup counter before
\* it can increment either of the other two.
C36_CounterOrdering ==
    /\ stats_nvd_fallback_success <= stats_cve_lookups
    /\ stats_api_errors_nvd <= stats_cve_lookups

\* every lookup counted so far has also been counted as a success or as an
\* error, by a handler and by the /cve lookup command
C36_Witness ==
    /\ stats_cve_lookups >= 2
    /\ stats_nvd_fallback_success + stats_api_errors_nvd = stats_cve_lookups
    /\ stats_api_errors_nvd >= 1
    /\ lookup_cmd.pc # "idle"
    /\ \E h \in Handlers : Started(h)

\* the identifier grammar: CVE- in either case, exactly four year digits, a
\* hyphen, at least four sequence digits, and nothing before or after
StrictGrammar(s) == CveMatchEnd(s, 1) = Len(s)

\* the identifiers an invocation's trace q counted or fetched
CountedOrFetched(q) == {q[k].cve : k \in {j \in DOMAIN q : q[j].op \in {"inc_lookups", "fetch"}}}

\* C33: a candidate identifier that does not match the strict grammar is
\* rejected before any upstream fetch and before any counter increment: a
\* /cve lookup given one ends with the invalid-format reply (or with the
\* defer or the reply raising) and has counted and fetched nothing, and a
\* message handler counts and fetches only identifiers of the grammar.
C33_ValidationBeforeFetch ==
    /\ (lookup_cmd.pc # "idle" /\ ~StrictGrammar(lookup_cmd.cve_id)) =>
          /\ lookup_cmd.pc \in {"await_defer", "await_reject_send", "done"}
          /\ lookup_cmd.pc = "done" => lookup_cmd.outcome \in {"invalid", "raised"}
          /\ CountedOrFetched(lookup_cmd.trace) = {}
    /\ \A h \in Handlers : \A c \in CountedOrFetched(trace[h]) : StrictGrammar(c)

(***************************************************************************)
(* The allow-list under /cve channels add and remove: an enabled guild     *)
(* that has rows, a guild without a row, or a guild globally disabled; one *)
(* message in either channel, before, between or after the commands.       *)
(***************************************************************************)
AllowMessages == {Message(FALSE, TRUE, c, OneCveText) : c \in Channels}

AllowRows == [Channels -> {None, Some(ChannelRow(FALSE, Some(TRUE))),
                           Some(ChannelRow(TRUE, None))}]

InitAllow ==
    /\ InitBot
    /\ messages_left = 1
    /\ faults_left = 1
    /\ \/ /\ cve_guild_config = Some(GuildConfig(TRUE, FALSE, "high"))
          /\ cve_channel_configs \in AllowRows \ {NoRows}
       \/ /\ cve_guild_config = None
          /\ cve_channel_configs = NoRows
       \/ /\ cve_guild_config = Some(GuildConfig(FALSE, TRUE, "high"))
          /\ cve_channel_configs \in AllowRows
    /\ db = TRUE /\ nvd_client = TRUE /\ cisa_kev_client = TRUE
    /\ nvd_records = NvdWith(Scored(85), None)
    /\ kev_catalog = {Cve1}
    /\ hash_order = Ascending

NextAllow ==
    \/ \E h \in Handlers :
        \/ \E message \in AllowMessages : OnMessage(h, message)
        \/ LoopStep(h)
    \/ \E raise_at \in RaiseAt, channel \in Channels :
        \/ channels_add_command(channel, raise_at)
        \/ channels_remove_command(channel, raise_at)

SpecAllow == InitAllow /\ [][NextAllow]_vars

\* the rows make destination d monitored: there is no row at all, or d has
\* a row that is enabled
RowsAllow(rows, d) == rows = NoRows \/ (rows[d] # None /\ rows[d][1].enabled)

\* this step is handler h taking a message of an enabled guild through the
\* initial checks and the read of the store
BeginsInEnabledGuild(h) ==
    /\ handlers[h].pc = "idle"
    /\ handlers'[h].pc # "idle"
    /\ handlers'[h].outcome \notin {"bot", "dm", "nodeps", "empty", "raised"}
    /\ GuildEnabled

MonitoredNext(h) == handlers'[h].outcome \in {"pending", "nocves", "summarized"}

\* this step is the policy command op replying with the given result
CommandReplied(op, result) ==
    /\ policy_cmd'.count = policy_cmd.count + 1
    /\ policy_cmd'.op = op
    /\ policy_cmd'.result = result

ChannelAdded == policy_cmd.op = "channels_add" /\ policy_cmd.result = "ok"

\* C35: a successful /cve channels add for destination D, from any prior
\* state (no guild row, a guild globally disabled, D holding a disabled
\* row), leaves a guild row with monitoring enabled and a row of D with
\* enabled = true, so that a message then arriving in D passes the policy
\* guards; the command leaves the guild's severity threshold and default
\* verbosity and D's verbosity override as they were.
C35_ChannelsAdd ==
    [][/\ CommandReplied("channels_add", "ok") =>
           LET d == policy_cmd'.channel IN
           /\ cve_guild_config' # None
           /\ cve_guild_config'[1].cve_monitoring_enabled
           /\ cve_channel_configs'[d] # None
           /\ cve_channel_configs'[d][1].enabled
           /\ cve_guild_config # None =>
                 /\ cve_guild_config'[1].cve_severity_threshold =
                        cve_guild_config[1].cve_severity_threshold
                 /\ cve_guild_config'[1].verbose_mode = cve_guild_config[1].verbose_mode
           /\ cve_channel_configs[d] # None =>
                 cve_channel_configs'[d][1].verbose_mode =
                     cve_channel_configs[d][1].verbose_mode
       /\ \A h \in Handlers :
             ( /\ ChannelAdded
               /\ handlers[h].pc = "idle"
               /\ handlers'[h].pc # "idle"
               /\ handlers'[h].message.channel = policy_cmd.channel
               /\ handlers'[h].outcome \notin {"bot", "dm", "nodeps", "empty", "raised"} )
             => MonitoredNext(h)]_vars

\* the guild was globally disabled and c1 held a disabled row with an
\* override; /cve channels add c1 succeeded, and a message in c1 then read
\* the enabled row, override kept, and is being processed
C35_Witness ==
    /\ ChannelAdded
    /\ policy_cmd.channel = "c1"
    /\ policy_cmd.count = 1
    /\ cve_guild_config = Some(GuildConfig(TRUE, TRUE, "high"))
    /\ cve_channel_configs["c1"] = Some(ChannelRow(TRUE, Some(TRUE)))
    /\ \E h \in Handlers :
          /\ handlers[h].message.channel = "c1"
          /\ handlers[h].guild_config = cve_guild_config
          /\ handlers[h].pc \in PastGatePcs

\* the sends of the vulnerability notification in an invocation's trace q
CveSends(q) == SelectSeq(q, LAMBDA e : e.op = "send_cve")

\* C37: the monitoring flag, the allow-list decision and the severity floor
\* are read once, when the handling of the message begins, and applied
\* unchanged to every identifier of the batch: once the batch has begun the
\* rows the handler read stay as read, no policy command ends the batch,
\* and each fetched record is gated by the floor read at the start; the
\* verbosity is read again for each identifier, from the store as it is
\* when that identifier's notification is made.
C37_PolicySnapshot ==
    [][\A h \in Handlers :
          LET f == handlers[h]
              g == handlers'[h] IN
          /\ BatchBegun(h) =>
                /\ g.guild_config = f.guild_config
                /\ g.channel_configs = f.channel_configs
                /\ g.global_threshold_str = f.global_threshold_str
                /\ g.outcome \in {"pending", "summarized"}
          /\ (f.pc = "inc_success" /\ g.pc # "inc_success") =>
                (Last(trace'[h]).op = "gate_skip"
                    <=> ~Passes(f.cve_details[1].cvss, FloorLabel(h)))
          /\ (f.pc # "await_send_cve" /\ g.pc = "await_send_cve") =>
                g.verbose = ResolvedVerbosity(f.message.channel)]_vars

\* a batch begun under floor `medium` and standard mode: after its first
\* notification the floor was set to `critical` and the guild's mode to
\* verbose; the second identifier, scored 5.0, was still notified, in
\* verbose mode
C37_Witness ==
    \E h \in Handlers :
        LET sends == CveSends(trace[h]) IN
        /\ Len(sends) = 2
        /\ ~sends[1].verbose
        /\ sends[2].verbose
        /\ sends[2].cve = Cve2
        /\ FloorLabel(h) = "medium"
        /\ cve_guild_config[1].cve_severity_threshold = "critical"
        /\ cve_guild_config[1].verbose_mode

\* the outbound messages of an invocation's trace q
Outbound(q) == CountOps(q, {"send_cve", "send_kev", "notice"})

\* C38: one message causes at most 11 outbound messages: at most 5
\* vulnerability notifications, at most 5 exploitation notifications and
\* at most one truncation notice, with at most one notification of each
\* kind per distinct identifier; and at most 5 primary fetches and 5
\* exploitation lookups.
C38_BoundedEmission ==
    \A h \in Handlers :
        LET q == trace[h] IN
        /\ CountOps(q, {"send_cve"}) <= MAX_CVES_PER_MESSAGE
        /\ CountOps(q, {"send_kev"}) <= MAX_CVES_PER_MESSAGE
        /\ CountOps(q, {"notice"}) <= 1
        /\ Outbound(q) <= 2 * MAX_CVES_PER_MESSAGE + 1
        /\ CountOps(q, {"fetch"}) <= MAX_CVES_PER_MESSAGE
        /\ CountOps(q, {"kev_lookup"}) <= MAX_CVES_PER_MESSAGE
        /\ \A c \in {q[k].cve : k \in CveOps(q)} :
              /\ Cardinality(OpsOf(q, {"send_cve"}, c)) <= 1
              /\ Cardinality(OpsOf(q, {"send_kev"}, c)) <= 1

\* a message with seven identifiers, every one of them with a record that
\* passes the floor and is in the KEV catalogue: 5 fetches, 5 exploitation
\* lookups, and 11 outbound messages
C38_Witness ==
    \E h \in Handlers :
        LET q == trace[h] IN
        /\ Finished(h)
        /\ Cardinality(handlers[h].found_cves_set) = 7
        /\ CountOps(q, {"send_cve"}) = 5
        /\ CountOps(q, {"send_kev"}) = 5
        /\ CountOps(q, {"notice"}) = 1
        /\ Outbound(q) = 11
        /\ CountOps(q, {"fetch"}) = 5
        /\ CountOps(q, {"kev_lookup"}) = 5

\* this step is a step of a message handler
HandlerStepped == handlers' # handlers \/ trace' # trace

\* C39: the handling of a message never writes policy: whatever the message
\* and its outcome, no step of on_message changes the guild's row or the
\* channel rows; they are created or changed only by a policy command.
C39_HandlerWritesNoPolicy ==
    [][/\ HandlerStepped => UNCHANGED storeVars
       /\ storeVars' # storeVars => policy_cmd'.count = policy_cmd.count + 1]_vars

\* a message arrived in a guild that has no row: it was dropped as not
\* monitored and the guild still has no row
C39_Witness ==
    /\ cve_guild_config = None
    /\ policy_cmd = NoPolicyCommand
    /\ \E h \in Handlers :
          /\ Finished(h)
          /\ PassesInitialChecks(h)
          /\ handlers[h].outcome = "disabled"
          /\ handlers[h].guild_config = None

====
